---------------------------- MODULE Spec2Model ----------------------------
(***************************************************************************)
(* Model of the Hyphae Mesh channel-URL encoder (src/js/qr-generator.js):  *)
(* the protobuf-lite varint/field encoder, the four message builders, the  *)
(* base64 / base64url framing and the three URL generators exported as     *)
(* window.HyphaeMesh.                                                      *)
(*                                                                         *)
(* Conventions                                                             *)
(*   - a byte sequence (Uint8Array) is a sequence of 0..255;               *)
(*   - text produced by the encoder (base64, URLs) is a sequence of        *)
(*     one-character strings; a channel name is a sequence of code points; *)
(*   - an optional property is a sequence of length 0 (undefined) or 1;    *)
(*   - a JavaScript integer Number is a record [neg, hi, w1, w0] whose     *)
(*     magnitude is hi * 2^32 + w1 * 2^16 + w0, so that values of 2^32     *)
(*     and above and the 32-bit conversions of the bitwise operators are   *)
(*     represented exactly.                                                *)
(***************************************************************************)
EXTENDS Integers, Sequences, FiniteSets, TLC

VARIABLES
  config,      \* HYPHAE_MESH_CONFIG, the object also exported as HyphaeMesh.config
  last,        \* the last completed call of a URL generator: request and result
  prev,        \* the completed call before it
  firstNet,    \* result of the first generateNetworkURL call (<<>> before it)
  probe,       \* the last direct call of one of the pure functions
  loop,        \* one execution of encodeVarint, statement by statement
  store,       \* the object stores 'conversations' and 'contacts' of nashme_db
  creates,     \* the calls of the conversation manager, in the order they were made
  sw,          \* the service worker: cache storage, activation, puts under way
  events,      \* the fetch events dispatched to the service worker, in order
  app,         \* NashMeshApp: screen, settings store, connection attempts
  wizard       \* the step wizard: currentStep and the classes of its elements

vars == <<config, last, prev, firstNet, probe, loop, store, creates, sw, events, app, wizard>>

\* The variables of each program, and for each program the variables of
\* the others, which its steps leave alone
encoderVars == <<config, last, prev, firstNet, probe>>
conversationVars == <<store, creates>>
workerVars == <<sw, events>>
notEncoder == <<loop, conversationVars, workerVars, app, wizard>>
notLoop == <<encoderVars, conversationVars, workerVars, app, wizard>>
notConversations == <<encoderVars, loop, workerVars, app, wizard>>
notWorker == <<encoderVars, loop, conversationVars, app, wizard>>
notApp == <<encoderVars, loop, conversationVars, workerVars, wizard>>
notWizard == <<encoderVars, loop, conversationVars, workerVars, app>>

(***************************************************************************)
(* Bounds of the input sets.                                               *)
(***************************************************************************)
MaxBytes == 3        \* longest byte sequence given to the base64 functions
MaxChannels == 2     \* most channels in a config given to buildChannelSet
MaxSeed == 2         \* the random source yields one of MaxSeed + 1 keys

(***************************************************************************)
(* Optional values.                                                        *)
(***************************************************************************)
Undefined == <<>>
Some(v) == <<v>>
IsDefined(o) == Len(o) = 1
Val(o) == o[1]

(***************************************************************************)
(* JavaScript integer Numbers.                                             *)
(***************************************************************************)
Abs(i) == IF i < 0 THEN 0 - i ELSE i

\* The Number with the integer value i (|i| < 2^31).
Nm(i) == [neg |-> i < 0, hi |-> 0, w1 |-> (Abs(i) \div 65536), w0 |-> (Abs(i) % 65536)]

\* The Number hi * 2^32 + w1 * 2^16 + w0.
Big(hi, w1, w0) == [neg |-> FALSE, hi |-> hi, w1 |-> w1, w0 |-> w0]

\* The value of a Number known to lie in 0 .. 2^31 - 1.
SmallVal(v) == (v.w1 * 65536) + v.w0

\* value > 0
Gt0(v) == ~v.neg /\ (v.hi > 0 \/ v.w1 > 0 \/ v.w0 > 0)

\* value > 0x7f
Gt7f(v) == ~v.neg /\ (v.hi > 0 \/ v.w1 > 0 \/ v.w0 > 127)

\* ToInt32 / ToUint32: the low 32 bits of the two's complement of v, as the
\* two 16-bit halves <<high, low>>.
Low32(v) ==
  IF ~v.neg THEN <<v.w1, v.w0>>
  ELSE IF v.w0 > 0 THEN <<65535 - v.w1, 65536 - v.w0>>
  ELSE IF v.w1 > 0 THEN <<65536 - v.w1, 0>>
  ELSE <<0, 0>>

\* value & 0x7f
And7f(v) == Low32(v)[2] % 128

\* value >>> 7
Ushr7(v) == Nm((Low32(v)[1] * 512) + (Low32(v)[2] \div 128))

(***************************************************************************)
(* Protobuf-lite encoding.                                                 *)
(***************************************************************************)
WIRE_VARINT == 0
WIRE_LENGTH_DELIMITED == 2

RECURSIVE encodeVarintLoop(_)
encodeVarintLoop(value) ==
  IF Gt7f(value)
  THEN <<And7f(value) + 128>> \o encodeVarintLoop(Ushr7(value))
  ELSE <<And7f(value)>>

encodeVarint(value) == encodeVarintLoop(value)

\* (fieldNumber << 3) | wireType, for the field numbers and wire types in use
encodeTag(fieldNumber, wireType) == encodeVarint(Nm((fieldNumber * 8) + wireType))

\* Mutant: the length of a payload written as one byte
encodeField_oneByteLength(fieldNumber, wireType, data) ==
  IF wireType = WIRE_VARINT
  THEN encodeTag(fieldNumber, wireType) \o encodeVarint(data)
  ELSE IF wireType = WIRE_LENGTH_DELIMITED
  THEN encodeTag(fieldNumber, wireType) \o <<Len(data) % 256>> \o data
  ELSE encodeTag(fieldNumber, wireType)

\* data is a Number for VARINT and a byte sequence for LENGTH_DELIMITED
encodeField(fieldNumber, wireType, data) ==
  IF wireType = WIRE_VARINT
  THEN encodeTag(fieldNumber, wireType) \o encodeVarint(data)
  ELSE IF wireType = WIRE_LENGTH_DELIMITED
  THEN encodeTag(fieldNumber, wireType) \o encodeVarint(Nm(Len(data))) \o data
  ELSE encodeTag(fieldNumber, wireType)

\* TextEncoder.encode of one code point; a lone surrogate is encoded as
\* U+FFFD
Utf8(c) ==
  IF c \in 55296..57343 THEN <<239, 191, 189>>
  ELSE IF c < 128 THEN <<c>>
  ELSE IF c < 2048 THEN <<192 + (c \div 64), 128 + (c % 64)>>
  ELSE IF c < 65536
  THEN <<224 + (c \div 4096), 128 + ((c \div 64) % 64), 128 + (c % 64)>>
  ELSE <<240 + (c \div 262144), 128 + ((c \div 4096) % 64),
         128 + ((c \div 64) % 64), 128 + (c % 64)>>

\* A high surrogate followed by a low surrogate at the head of the string
SurrogatePair(str) ==
  /\ Len(str) >= 2
  /\ str[1] \in 55296..56319
  /\ str[2] \in 56320..57343

\* TextEncoder.encode of a string of UTF-16 code units
RECURSIVE TextEncode(_)
TextEncode(str) ==
  IF str = <<>> THEN <<>>
  ELSE IF SurrogatePair(str)
  THEN Utf8(65536 + (str[1] - 55296) * 1024 + (str[2] - 56320))
         \o TextEncode(Tail(Tail(str)))
  ELSE Utf8(Head(str)) \o TextEncode(Tail(str))

encodeString(fieldNumber, str) ==
  encodeField(fieldNumber, WIRE_LENGTH_DELIMITED, TextEncode(str))

encodeBytes(fieldNumber, bytes) ==
  encodeField(fieldNumber, WIRE_LENGTH_DELIMITED, bytes)

encodeUint32(fieldNumber, value) ==
  encodeField(fieldNumber, WIRE_VARINT, value)

encodeBool(fieldNumber, value) ==
  encodeField(fieldNumber, WIRE_VARINT, IF value THEN Nm(1) ELSE Nm(0))

(***************************************************************************)
(* Encoding utilities.                                                     *)
(***************************************************************************)
\* Mutant: a zero byte written between two arrays
RECURSIVE concatUint8Arrays_zeroSeparated(_)
concatUint8Arrays_zeroSeparated(arrays) ==
  IF arrays = <<>> THEN <<>>
  ELSE IF Tail(arrays) = <<>> THEN Head(arrays)
  ELSE Head(arrays) \o <<0>> \o concatUint8Arrays_zeroSeparated(Tail(arrays))

RECURSIVE concatUint8Arrays(_)
concatUint8Arrays(arrays) ==
  IF arrays = <<>> THEN <<>>
  ELSE Head(arrays) \o concatUint8Arrays(Tail(arrays))

(***************************************************************************)
(* Meshtastic proto message builders.  Each builder collects the encoded   *)
(* fields in `parts` and returns their concatenation.                      *)
(***************************************************************************)
Part(cond, bytes) == IF cond THEN <<bytes>> ELSE <<>>

\* Mutant: channel_num written whenever it is set, 0 included
ChannelSettingsParts_zeroChannelNum(settings) ==
  Part(IsDefined(settings.channelNum), encodeUint32(1, Val(settings.channelNum)))
  \o Part(IsDefined(settings.psk), encodeBytes(2, Val(settings.psk)))
  \o Part(IsDefined(settings.name) /\ Val(settings.name) # <<>>,
          encodeString(3, Val(settings.name)))
  \o Part(IsDefined(settings.uplinkEnabled),
          encodeBool(5, Val(settings.uplinkEnabled)))
  \o Part(IsDefined(settings.downlinkEnabled),
          encodeBool(6, Val(settings.downlinkEnabled)))

ChannelSettingsParts(settings) ==
  Part(IsDefined(settings.channelNum) /\ Gt0(Val(settings.channelNum)),
       encodeUint32(1, Val(settings.channelNum)))
  \o Part(IsDefined(settings.psk), encodeBytes(2, Val(settings.psk)))
  \o Part(IsDefined(settings.name) /\ Val(settings.name) # <<>>,
          encodeString(3, Val(settings.name)))
  \o Part(IsDefined(settings.uplinkEnabled),
          encodeBool(5, Val(settings.uplinkEnabled)))
  \o Part(IsDefined(settings.downlinkEnabled),
          encodeBool(6, Val(settings.downlinkEnabled)))

buildChannelSettings(settings) ==
  concatUint8Arrays(ChannelSettingsParts(settings))

\* Mutant: the index tested for truthiness (if (channel.index)), so that
\* index 0 is left out
ChannelParts_truthyIndex(channel) ==
  Part(IsDefined(channel.index) /\ Gt0(Val(channel.index)),
       encodeUint32(1, Val(channel.index)))
  \o Part(IsDefined(channel.settings),
          encodeField(2, WIRE_LENGTH_DELIMITED,
                      buildChannelSettings(Val(channel.settings))))
  \o Part(IsDefined(channel.role), encodeUint32(3, Val(channel.role)))

\* Mutant: the settings bytes written after the tag without their length
ChannelParts_inlineSettings(channel) ==
  Part(IsDefined(channel.index), encodeUint32(1, Val(channel.index)))
  \o Part(IsDefined(channel.settings),
          encodeTag(2, WIRE_LENGTH_DELIMITED)
          \o buildChannelSettings(Val(channel.settings)))
  \o Part(IsDefined(channel.role), encodeUint32(3, Val(channel.role)))

\* Mutant: an unset index written as 0 (channel.index || 0)
ChannelParts_indexDefault(channel) ==
  <<encodeUint32(1, IF IsDefined(channel.index) THEN Val(channel.index) ELSE Nm(0))>>
  \o Part(IsDefined(channel.settings),
          encodeField(2, WIRE_LENGTH_DELIMITED,
                      buildChannelSettings(Val(channel.settings))))
  \o Part(IsDefined(channel.role), encodeUint32(3, Val(channel.role)))

ChannelParts(channel) ==
  Part(IsDefined(channel.index), encodeUint32(1, Val(channel.index)))
  \o Part(IsDefined(channel.settings),
          encodeField(2, WIRE_LENGTH_DELIMITED,
                      buildChannelSettings(Val(channel.settings))))
  \o Part(IsDefined(channel.role), encodeUint32(3, Val(channel.role)))

buildChannel(channel) == concatUint8Arrays(ChannelParts(channel))

\* Mutant: hop_limit written under field number 8
LoRaConfigParts_hopLimitField8(lora) ==
  Part(IsDefined(lora.region), encodeUint32(3, Val(lora.region)))
  \o Part(IsDefined(lora.modemPreset), encodeUint32(4, Val(lora.modemPreset)))
  \o Part(IsDefined(lora.hopLimit), encodeUint32(8, Val(lora.hopLimit)))
  \o Part(IsDefined(lora.txEnabled), encodeBool(11, Val(lora.txEnabled)))
  \o Part(IsDefined(lora.txPower), encodeUint32(12, Val(lora.txPower)))

LoRaConfigParts(lora) ==
  Part(IsDefined(lora.region), encodeUint32(3, Val(lora.region)))
  \o Part(IsDefined(lora.modemPreset), encodeUint32(4, Val(lora.modemPreset)))
  \o Part(IsDefined(lora.hopLimit), encodeUint32(7, Val(lora.hopLimit)))
  \o Part(IsDefined(lora.txEnabled), encodeBool(11, Val(lora.txEnabled)))
  \o Part(IsDefined(lora.txPower), encodeUint32(12, Val(lora.txPower)))

buildLoRaConfig(lora) == concatUint8Arrays(LoRaConfigParts(lora))

\* Mutant: each channel put in front of the ones before it (parts.unshift)
RECURSIVE ChannelFields_reversed(_)
ChannelFields_reversed(channels) ==
  IF channels = <<>> THEN <<>>
  ELSE ChannelFields_reversed(Tail(channels))
       \o <<encodeField(1, WIRE_LENGTH_DELIMITED, buildChannel(Head(channels)))>>

\* config.channels.forEach(...): one part per channel, in array order
RECURSIVE ChannelFields(_)
ChannelFields(channels) ==
  IF channels = <<>> THEN <<>>
  ELSE <<encodeField(1, WIRE_LENGTH_DELIMITED, buildChannel(Head(channels)))>>
       \o ChannelFields(Tail(channels))

ChannelSetParts(cfg) ==
  (IF IsDefined(cfg.channels) THEN ChannelFields(Val(cfg.channels)) ELSE <<>>)
  \o Part(IsDefined(cfg.lora),
          encodeField(2, WIRE_LENGTH_DELIMITED, buildLoRaConfig(Val(cfg.lora))))

\* buildChannelSet: the parts of the message, concatenated
buildChannelSet(cfg) == concatUint8Arrays(ChannelSetParts(cfg))

(***************************************************************************)
(* base64 (btoa over the binary string of the bytes) and base64url.        *)
(***************************************************************************)
B64_ALPHABET ==
  << "A","B","C","D","E","F","G","H","I","J","K","L","M","N","O","P",
     "Q","R","S","T","U","V","W","X","Y","Z","a","b","c","d","e","f",
     "g","h","i","j","k","l","m","n","o","p","q","r","s","t","u","v",
     "w","x","y","z","0","1","2","3","4","5","6","7","8","9","+","/" >>

B64Char(sextet) == B64_ALPHABET[sextet + 1]

RECURSIVE btoa(_)
btoa(b) ==
  IF Len(b) = 0 THEN <<>>
  ELSE IF Len(b) = 1 THEN
    << B64Char(b[1] \div 4), B64Char((b[1] % 4) * 16), "=", "=" >>
  ELSE IF Len(b) = 2 THEN
    << B64Char(b[1] \div 4), B64Char(((b[1] % 4) * 16) + (b[2] \div 16)),
       B64Char((b[2] % 16) * 4), "=" >>
  ELSE
    << B64Char(b[1] \div 4), B64Char(((b[1] % 4) * 16) + (b[2] \div 16)),
       B64Char(((b[2] % 16) * 4) + (b[3] \div 64)), B64Char(b[3] % 64) >>
    \o btoa(SubSeq(b, 4, Len(b)))

\* Mutant: the binary string built from the low 7 bits of each byte
uint8ArrayToBase64_sevenBit(bytes) ==
  btoa([ i \in 1..Len(bytes) |-> bytes[i] % 128 ])

uint8ArrayToBase64(bytes) == btoa(bytes)

\* str.replace(/from/g, to) for a one-character pattern; to = <<>> removes it
RECURSIVE ReplaceAll(_, _, _)
ReplaceAll(str, from, to) ==
  IF str = <<>> THEN <<>>
  ELSE (IF Head(str) = from THEN to ELSE <<Head(str)>>)
       \o ReplaceAll(Tail(str), from, to)

\* Mutant: "/" left in place
uint8ArrayToBase64URL_keepSlash(bytes) ==
  ReplaceAll(ReplaceAll(uint8ArrayToBase64(bytes), "+", <<"-">>), "=", <<>>)

uint8ArrayToBase64URL(bytes) ==
  ReplaceAll(ReplaceAll(ReplaceAll(uint8ArrayToBase64(bytes),
                                   "+", <<"-">>), "/", <<"_">>), "=", <<>>)

(***************************************************************************)
(* URL generation.                                                         *)
(***************************************************************************)
\* "https://meshtastic.org/e/"
MESHTASTIC_BASE ==
  << "h", "t", "t", "p", "s", ":", "/", "/", "m", "e", "s", "h", "t", "a", "s", "t", "i", "c", ".", "o", "r", "g", "/", "e", "/" >>

\* Mutant: the ChannelSet bytes wrapped in a length prefix
generateMeshtasticURL_lengthPrefixed(cfg) ==
  MESHTASTIC_BASE \o <<"#">>
  \o uint8ArrayToBase64URL(encodeVarint(Nm(Len(buildChannelSet(cfg))))
                           \o buildChannelSet(cfg))

\* `https://meshtastic.org/e/#${base64}`
generateMeshtasticURL(cfg) ==
  MESHTASTIC_BASE \o <<"#">> \o uint8ArrayToBase64URL(buildChannelSet(cfg))

\* Mutant: the network channel given role 2 (SECONDARY)
NetworkConfig_roleSecondary(C) ==
  [ lora |-> Some(C.lora),
    channels |-> Some(<< [ index |-> Some(Nm(0)),
                           settings |-> Some([ channelNum |-> Undefined,
                                               name |-> Some(C.channel.name),
                                               psk |-> Some(C.channel.psk),
                                               uplinkEnabled |-> Some(C.channel.uplinkEnabled),
                                               downlinkEnabled |-> Some(C.channel.downlinkEnabled) ]),
                           role |-> Some(Nm(2)) ] >>) ]

\* The config object generateHyphaeNetworkURL builds from HYPHAE_MESH_CONFIG (C)
NetworkConfig(C) ==
  [ lora |-> Some(C.lora),
    channels |-> Some(<< [ index |-> Some(Nm(0)),
                           settings |-> Some([ channelNum |-> Undefined,
                                               name |-> Some(C.channel.name),
                                               psk |-> Some(C.channel.psk),
                                               uplinkEnabled |-> Some(C.channel.uplinkEnabled),
                                               downlinkEnabled |-> Some(C.channel.downlinkEnabled) ]),
                           role |-> Some(Nm(1)) ] >>) ]

generateHyphaeNetworkURL(C) == generateMeshtasticURL(NetworkConfig(C))

\* "Private"
PRIVATE_NAME == << 80, 114, 105, 118, 97, 116, 101 >>

\* channelName || 'Private'
NameOrPrivate(channelName) ==
  IF IsDefined(channelName) /\ Val(channelName) # <<>>
  THEN Val(channelName) ELSE PRIVATE_NAME

\* Mutant: the private channel keyed with the default public key instead
\* of the key drawn
PrivateConfig_defaultPsk(C, channelName, psk) ==
  [ lora |-> Some(C.lora),
    channels |-> Some(<< [ index |-> Some(Nm(0)),
                           settings |-> Some([ channelNum |-> Undefined,
                                               name |-> Some(NameOrPrivate(channelName)),
                                               psk |-> Some(C.channel.psk),
                                               uplinkEnabled |-> Some(FALSE),
                                               downlinkEnabled |-> Some(FALSE) ]),
                           role |-> Some(Nm(1)) ] >>) ]

\* The config object generatePrivateChannelURL builds; psk is the key drawn
\* by generateRandomPSK
PrivateConfig(C, channelName, psk) ==
  [ lora |-> Some(C.lora),
    channels |-> Some(<< [ index |-> Some(Nm(0)),
                           settings |-> Some([ channelNum |-> Undefined,
                                               name |-> Some(NameOrPrivate(channelName)),
                                               psk |-> Some(psk),
                                               uplinkEnabled |-> Some(FALSE),
                                               downlinkEnabled |-> Some(FALSE) ]),
                           role |-> Some(Nm(1)) ] >>) ]

\* Mutant: the key returned in base64url
generatePrivateChannelURL_pskBase64URL(C, channelName, psk) ==
  [ url |-> generateMeshtasticURL(PrivateConfig(C, channelName, psk)),
    psk |-> uint8ArrayToBase64URL(psk) ]

generatePrivateChannelURL(C, channelName, psk) ==
  [ url |-> generateMeshtasticURL(PrivateConfig(C, channelName, psk)),
    psk |-> uint8ArrayToBase64(psk) ]

\* new Uint8Array(32)
PSK_BYTES == 32

(***************************************************************************)
(* Reference decoders (spec sections 4.1, 4.4): the inverse directions the *)
(* round-trip and known-vector properties are stated against.              *)
(***************************************************************************)
DecodeFail == [ok |-> FALSE, value |-> Nm(0), n |-> 0]

\* Number of bytes of the varint starting after `offset` bytes; 0 when the
\* input ends before a byte without the continuation bit.
RECURSIVE VarintLen(_, _)
VarintLen(bytes, offset) ==
  IF offset >= Len(bytes) THEN 0
  ELSE IF bytes[offset + 1] < 128 THEN 1
  ELSE IF VarintLen(bytes, offset + 1) = 0 THEN 0
  ELSE 1 + VarintLen(bytes, offset + 1)

\* decodeVarint(bytes, offset) -> (value, bytesConsumed), values below 2^63
decodeVarint(bytes, offset) ==
  LET n == VarintLen(bytes, offset)
      G(k) == IF k < n THEN bytes[offset + 1 + k] % 128 ELSE 0
  IN IF n = 0 \/ n > 9 THEN DecodeFail
     ELSE [ ok |-> TRUE,
            value |-> [ neg |-> FALSE,
                        w0 |-> G(0) + (G(1) * 128) + ((G(2) % 4) * 16384),
                        w1 |-> (G(2) \div 4) + (G(3) * 32) + ((G(4) % 16) * 4096),
                        hi |-> (G(4) \div 16) + (G(5) * 8) + (G(6) * 1024)
                               + (G(7) * 131072) + (G(8) * 16777216) ],
            n |-> n ]

ParseFail == [ok |-> FALSE, fields |-> <<>>]

\* Generic protobuf parse of the bytes after `off`: the sequence of fields
\* [num, wt, val, data] (val for wire type 0, data for wire type 2).
RECURSIVE ParseFrom(_, _)
ParseFrom(b, off) ==
  IF off = Len(b) THEN [ok |-> TRUE, fields |-> <<>>]
  ELSE
    LET t == decodeVarint(b, off)
        tag == SmallVal(t.value)
        num == tag \div 8
        wt == tag % 8
        off1 == off + t.n
        v == decodeVarint(b, off1)
        len == SmallVal(v.value)
        off2 == off1 + v.n
        restV == ParseFrom(b, off2)
        restD == ParseFrom(b, off2 + len)
    IN IF ~t.ok \/ t.value.hi > 0 \/ t.value.w1 > 0 THEN ParseFail
       ELSE IF ~v.ok THEN ParseFail
       ELSE IF wt = 0 THEN
         IF restV.ok
         THEN [ok |-> TRUE,
               fields |-> <<[num |-> num, wt |-> 0, val |-> v.value, data |-> <<>>]>>
                          \o restV.fields]
         ELSE ParseFail
       ELSE IF wt = 2 THEN
         IF v.value.hi > 0 \/ v.value.w1 > 0 \/ off2 + len > Len(b) THEN ParseFail
         ELSE IF restD.ok
         THEN [ok |-> TRUE,
               fields |-> <<[num |-> num, wt |-> 2, val |-> Nm(0),
                             data |-> SubSeq(b, off2 + 1, off2 + len)]>>
                          \o restD.fields]
         ELSE ParseFail
       ELSE ParseFail

ParseMessage(b) == ParseFrom(b, 0)

\* The value 0..63 of a character of the standard alphabet
Sextet(c) == (CHOOSE i \in 1..64 : B64_ALPHABET[i] = c) - 1

IsB64Char(c) == \E i \in 1..64 : B64_ALPHABET[i] = c

\* atob on a padded string of valid characters whose length is a multiple of 4
RECURSIVE atob(_)
atob(str) ==
  IF str = <<>> THEN <<>>
  ELSE
    LET b1 == (Sextet(str[1]) * 4) + (Sextet(str[2]) \div 16)
        b2 == ((Sextet(str[2]) % 16) * 16) + (Sextet(str[3]) \div 4)
        b3 == ((Sextet(str[3]) % 4) * 64) + Sextet(str[4])
    IN IF str[3] = "=" THEN <<b1>>
       ELSE IF str[4] = "=" THEN <<b1, b2>>
       ELSE <<b1, b2, b3>> \o atob(SubSeq(str, 5, Len(str)))

\* CryptoUtils.base64ToUint8Array: the char codes of atob(base64)
base64ToUint8Array(base64) == atob(base64)

\* fromBase64URL: reverse the substitution, reinstate the padding from the
\* length mod 4, decode standard base64; a length of 1 mod 4 or a character
\* outside the alphabet is a decode error.
fromBase64URL(str) ==
  LET std == ReplaceAll(ReplaceAll(str, "-", <<"+">>), "_", <<"/">>)
      pad == IF Len(str) % 4 = 2 THEN <<"=", "=">>
             ELSE IF Len(str) % 4 = 3 THEN <<"=">> ELSE <<>>
  IN IF Len(str) % 4 = 1 \/ (\E i \in 1..Len(str) : ~IsB64Char(std[i]) \/ str[i] \in {"+", "/"})
     THEN [ok |-> FALSE, bytes |-> <<>>]
     ELSE [ok |-> TRUE, bytes |-> base64ToUint8Array(std \o pad)]

(***************************************************************************)
(* State machine of the exported API (window.HyphaeMesh).                  *)
(***************************************************************************)
\* HYPHAE_MESH_CONFIG as constructed
DefaultConfig ==
  [ lora |-> [ region |-> Some(Nm(1)), modemPreset |-> Some(Nm(3)),
               hopLimit |-> Some(Nm(6)), txEnabled |-> Some(TRUE),
               txPower |-> Some(Nm(30)) ],
    channel |-> [ name |-> <<>>, psk |-> <<1>>,
                  uplinkEnabled |-> TRUE, downlinkEnabled |-> TRUE ] ]

NoCall ==
  [ op |-> "none", name |-> Undefined, draw |-> <<>>, base |-> <<>>,
    cfg |-> Undefined, bytes |-> <<>>, url |-> <<>>, psk |-> <<>> ]

NoProbe == [ fn |-> "none", arg |-> <<>>, done |-> FALSE, out |-> <<>> ]

\* No execution of encodeVarint is being followed
LoopIdle ==
  [ pc |-> "idle", input |-> Nm(0), value |-> Nm(0), bytes |-> <<>>, iters |-> 0 ]

\* The encoder's calls are not in use
EncoderIdle ==
  /\ config = DefaultConfig
  /\ last = NoCall
  /\ prev = NoCall
  /\ firstNet = Undefined
  /\ probe = NoProbe

\* A new database: both stores empty, no create call made
ConversationsIdle ==
  /\ store = [ conversations |-> {}, contacts |-> {}, deleted |-> 0 ]
  /\ creates = <<>>

\* No request
NoRequest == [ url |-> "none", method |-> "", mode |-> "" ]

\* A fetch event before its handler ran
NoEvent ==
  [ req |-> NoRequest, pc |-> "idle", trace |-> <<>>, net |-> "none",
    status |-> 0, cachedThen |-> {}, indexThen |-> FALSE, response |-> "none",
    key |-> "none" ]

\* The service worker is not registered: no cache exists
WorkerIdle ==
  /\ sw = [ names |-> {}, entries |-> {}, pending |-> {}, written |-> {},
            atActivate |-> {}, toDelete |-> {}, pc |-> "none",
            claimed |-> FALSE ]
  /\ events = <<>>

\* Every program but the one named has not started
NoApp ==
  [ pc |-> "closed", bluetooth |-> FALSE, longName |-> <<>>, shortName |-> <<>>,
    configuredBefore |-> FALSE, configured |-> FALSE, configuredAt |-> FALSE,
    screen |-> "none", errorType |-> "", nodeName |-> <<>>,
    log |-> <<>>, tasks |-> <<>>, clicks |-> 0 ]

NoWizard ==
  [ pc |-> "none", n |-> 0, hasIds |-> FALSE, hash |-> <<>>, currentStep |-> 0,
    active |-> {}, progressActive |-> {}, completed |-> {}, connectors |-> {},
    last |-> [ kind |-> "none", index |-> 0, called |-> FALSE,
               before |-> [ currentStep |-> 0, active |-> {}, progressActive |-> {},
                            completed |-> {}, connectors |-> {}, hash |-> <<>> ] ] ]

IdleExcept(program) ==
  /\ program # "encoder" => EncoderIdle
  /\ program # "loop" => loop = LoopIdle
  /\ program # "conversations" => ConversationsIdle
  /\ program # "worker" => WorkerIdle
  /\ program # "app" => app = NoApp
  /\ program # "wizard" => wizard = NoWizard

Init ==
  /\ IdleExcept("encoder")
  /\ config = DefaultConfig
  /\ last = NoCall
  /\ prev = NoCall
  /\ firstNet = Undefined
  /\ probe = NoProbe

\* crypto.getRandomValues(new Uint8Array(32)): the key of seed s
Draw(s) ==
  [ i \in 1..PSK_BYTES |-> (251 + (7 * i * s)) % 256 ]

RandomDraws == { Draw(s) : s \in 0..MaxSeed }

\* crypto.getRandomValues on an array of n bytes, with seed s
DrawBytes(s, n) ==
  [ i \in 1..n |-> (251 + (7 * i * s)) % 256 ]

\* new Uint8Array(length): the length is truncated to an integer (ToIndex)
Uint8ArrayLength(num, den) == num \div den

\* CryptoUtils.generatePSK(bits): bits / 8 random bytes, as base64
generatePSK(bits, s) ==
  LET array == DrawBytes(s, Uint8ArrayLength(bits, 8))
  IN btoa(array)

\* "Test"
NAME_TEST == << 84, 101, 115, 116 >>

ApiNames == { Undefined, Some(<<>>), Some(NAME_TEST) }

\* "https://nashme.sh/e/"
OTHER_BASE ==
  << "h", "t", "t", "p", "s", ":", "/", "/", "n", "a", "s", "h", "m", "e", ".", "s", "h", "/", "e", "/" >>

ApiBases == { MESHTASTIC_BASE, OTHER_BASE }

PublicSettings ==
  [ channelNum |-> Undefined, psk |-> Some(<<1>>), name |-> Some(<<>>),
    uplinkEnabled |-> Some(TRUE), downlinkEnabled |-> Some(TRUE) ]

SecondarySettings ==
  [ channelNum |-> Some(Nm(3)), psk |-> Some(<<251, 255>>), name |-> Some(<<65, 233>>),
    uplinkEnabled |-> Some(FALSE), downlinkEnabled |-> Undefined ]

PublicChannel ==
  [ index |-> Some(Nm(0)), settings |-> Some(PublicSettings), role |-> Some(Nm(1)) ]

SecondaryChannel ==
  [ index |-> Some(Nm(1)), settings |-> Some(SecondarySettings), role |-> Some(Nm(2)) ]

\* The configs callers hand to generateMeshtasticURL
ApiConfigs ==
  { [ channels |-> Some(<<>>), lora |-> Undefined ],
    [ channels |-> Undefined, lora |-> Some(DefaultConfig.lora) ],
    [ channels |-> Some(<<PublicChannel>>), lora |-> Some(DefaultConfig.lora) ],
    [ channels |-> Some(<<PublicChannel, SecondaryChannel>>), lora |-> Some(DefaultConfig.lora) ],
    [ channels |-> Some(<<SecondaryChannel, PublicChannel>>), lora |-> Undefined ] }

\* window.HyphaeMesh.generateNetworkURL()
CallGenerateNetworkURL ==
  LET url == generateHyphaeNetworkURL(config) IN
  /\ last' = [ NoCall EXCEPT !.op = "network", !.url = url ]
  /\ prev' = last
  /\ firstNet' = IF IsDefined(firstNet) THEN firstNet ELSE Some(url)
  /\ UNCHANGED <<config, probe>>
  /\ UNCHANGED notEncoder

\* window.HyphaeMesh.generatePrivateChannelURL(channelName)
CallGeneratePrivateChannelURL ==
  \E channelName \in ApiNames, psk \in RandomDraws :
    LET r == generatePrivateChannelURL(config, channelName, psk) IN
    /\ last' = [ NoCall EXCEPT !.op = "private", !.name = channelName, !.draw = psk,
                               !.url = r.url, !.psk = r.psk ]
    /\ prev' = last
    /\ UNCHANGED <<config, firstNet, probe>>
    /\ UNCHANGED notEncoder

\* window.HyphaeMesh.generateMeshtasticURL(cfg), by a caller that wants the
\* link under the base URL `base`
CallGenerateMeshtasticURL ==
  \E base \in ApiBases, cfg \in ApiConfigs :
    /\ last' = [ NoCall EXCEPT !.op = "url", !.base = base, !.cfg = Some(cfg),
                               !.bytes = buildChannelSet(cfg),
                               !.url = generateMeshtasticURL(cfg) ]
    /\ prev' = last
    /\ UNCHANGED <<config, firstNet, probe>>
    /\ UNCHANGED notEncoder

Next ==
  \/ CallGenerateNetworkURL
  \/ CallGeneratePrivateChannelURL
  \/ CallGenerateMeshtasticURL

Spec == Init /\ [][Next]_vars

(***************************************************************************)
(* The API together with a caller that writes through the exported         *)
(* reference window.HyphaeMesh.config (the HYPHAE_MESH_CONFIG object       *)
(* itself, not a copy).                                                    *)
(***************************************************************************)
WrittenHopLimits == { Nm(3), Nm(6) }

\* HyphaeMesh.config.lora.hopLimit = h
CallerWritesConfig ==
  \E h \in WrittenHopLimits :
    /\ config' = [ config EXCEPT !.lora.hopLimit = Some(h) ]
    /\ UNCHANGED <<last, prev, firstNet, probe>>
    /\ UNCHANGED notEncoder

NextOpen ==
  \/ CallGenerateNetworkURL
  \/ CallGeneratePrivateChannelURL
  \/ CallGenerateMeshtasticURL
  \/ CallerWritesConfig

SpecOpen == Init /\ [][NextOpen]_vars


(***************************************************************************)
(* Direct calls of the pure functions: the initial state holds the call    *)
(* and its argument, the action applies the function.                      *)
(***************************************************************************)
\* All sequences over S of length 0..n
RECURSIVE SeqsUpTo(_, _)
SeqsUpTo(S, n) ==
  IF n = 0 THEN { <<>> }
  ELSE SeqsUpTo(S, n - 1)
       \cup { Append(q, x) : q \in { r \in SeqsUpTo(S, n - 1) : Len(r) = n - 1 }, x \in S }

VarintInputs ==
  { Nm(i) : i \in { 0, 1, 127, 128, 300, 16383, 16384, 2097151, 2097152,
                    268435455, 268435456, 2147483647, -1, -200 } }
  \cup { Big(0, 32768, 0), Big(0, 65535, 65535), Big(1, 0, 0), Big(1, 0, 300),
         Big(256, 0, 1), Big(2097151, 65535, 65535) }

ByteValues == { 0, 65, 251, 255 }

ByteInputs == SeqsUpTo(ByteValues, MaxBytes)

SettingsInputs ==
  { [ channelNum |-> cn, psk |-> pk, name |-> nm, uplinkEnabled |-> up,
      downlinkEnabled |-> dn ] :
      cn \in { Undefined, Some(Nm(0)), Some(Nm(3)), Some(Nm(300)) },
      pk \in { Undefined, Some(<<>>), Some(<<1>>) },
      nm \in { Undefined, Some(<<>>), Some(<<65, 233>>) },
      up \in { Undefined, Some(TRUE), Some(FALSE) },
      dn \in { Undefined, Some(TRUE), Some(FALSE) } }

ChannelInputs ==
  { [ index |-> ix, settings |-> st, role |-> ro ] :
      ix \in { Undefined, Some(Nm(0)), Some(Nm(1)) },
      st \in { Undefined, Some(PublicSettings), Some(SecondarySettings) },
      ro \in { Undefined, Some(Nm(0)), Some(Nm(1)), Some(Nm(2)) } }

LoRaInputs ==
  { [ region |-> rg, modemPreset |-> mp, hopLimit |-> hl, txEnabled |-> te,
      txPower |-> tp ] :
      rg \in { Undefined, Some(Nm(1)) },
      mp \in { Undefined, Some(Nm(0)), Some(Nm(3)) },
      hl \in { Undefined, Some(Nm(0)), Some(Nm(6)), Some(Nm(200)) },
      te \in { Undefined, Some(TRUE), Some(FALSE) },
      tp \in { Undefined, Some(Nm(30)) } }

EmptyChannel == [ index |-> Undefined, settings |-> Undefined, role |-> Undefined ]

ConfigInputs ==
  { [ channels |-> chs, lora |-> lo ] :
      chs \in { Undefined }
              \cup { Some(q) : q \in SeqsUpTo({ PublicChannel, SecondaryChannel, EmptyChannel },
                                              MaxChannels) },
      lo \in { Undefined, Some(DefaultConfig.lora),
               Some([ DefaultConfig.lora EXCEPT !.region = Undefined,
                                                !.txEnabled = Some(FALSE) ]) } }

\* Length of the longest payload given to encodeField
MaxPayload == 130

\* A payload of n bytes
Payload(n) == [ i \in 1..n |-> (7 * i) % 256 ]

PayloadInputs == { Payload(n) : n \in { 0, 1, 127, 128, MaxPayload } }

FieldNumberInputs == { 1, 12, 16 }

\* WIRE_TYPE.FIXED32, a wire type encodeField has no branch for
WIRE_FIXED32 == 5

FieldInputs ==
  { [ fieldNumber |-> f, wireType |-> WIRE_VARINT, data |-> v ] :
      f \in FieldNumberInputs, v \in VarintInputs }
  \cup { [ fieldNumber |-> f, wireType |-> WIRE_LENGTH_DELIMITED, data |-> b ] :
          f \in FieldNumberInputs, b \in PayloadInputs }
  \cup { [ fieldNumber |-> f, wireType |-> WIRE_FIXED32, data |-> <<>> ] :
          f \in FieldNumberInputs }

\* Number of characters of the longest string given to encodeString
MaxChars == 43

\* Strings of UTF-16 code units: empty, two and three byte characters, a
\* surrogate pair, a lone surrogate, and one of three-byte characters whose
\* UTF-8 form is longer than 127 bytes
StringInputs ==
  { <<>>, <<65, 233>>, <<8364>>, <<55357, 56832>>, <<65, 55296, 66>>,
    [ i \in 1..MaxChars |-> 8364 + (i % 2) ] }

StringFieldInputs ==
  { [ fieldNumber |-> f, str |-> t ] : f \in FieldNumberInputs, t \in StringInputs }

BytesFieldInputs ==
  { [ fieldNumber |-> f, bytes |-> b ] : f \in FieldNumberInputs, b \in PayloadInputs }

\* generatePSK(bits): the default 256, other multiples of 8 and bit counts
\* that are no multiple of 8
PskBitsInputs == { 0, 7, 8, 12, 128, 255, 256 }

PskInputs == { [ bits |-> n, seed |-> s ] : n \in PskBitsInputs, s \in 0..MaxSeed }

Request(fn, arg) == [ fn |-> fn, arg |-> arg, done |-> FALSE, out |-> <<>> ]

ProbeRequests ==
  { Request("encodeVarint", v) : v \in VarintInputs }
  \cup { Request("uint8ArrayToBase64", b) : b \in ByteInputs }
  \cup { Request("uint8ArrayToBase64URL", b) : b \in ByteInputs }
  \cup { Request("buildChannelSettings", x) : x \in SettingsInputs }
  \cup { Request("buildChannel", x) : x \in ChannelInputs }
  \cup { Request("buildLoRaConfig", x) : x \in LoRaInputs }
  \cup { Request("buildChannelSet", x) : x \in ConfigInputs }
  \cup { Request("encodeField", x) : x \in FieldInputs }
  \cup { Request("encodeString", x) : x \in StringFieldInputs }
  \cup { Request("encodeBytes", x) : x \in BytesFieldInputs }
  \cup { Request("generatePSK", x) : x \in PskInputs }

InitPure ==
  /\ IdleExcept("encoder")
  /\ config = DefaultConfig
  /\ last = NoCall
  /\ prev = NoCall
  /\ firstNet = Undefined
  /\ probe \in ProbeRequests

Return(fn, out) ==
  /\ probe.fn = fn
  /\ ~probe.done
  /\ probe' = [ probe EXCEPT !.done = TRUE, !.out = out ]
  /\ UNCHANGED <<config, last, prev, firstNet>>
  /\ UNCHANGED notEncoder

ApplyEncodeVarint == Return("encodeVarint", encodeVarint(probe.arg))

ApplyBase64 == Return("uint8ArrayToBase64", uint8ArrayToBase64(probe.arg))

ApplyBase64URL == Return("uint8ArrayToBase64URL", uint8ArrayToBase64URL(probe.arg))

ApplyBuildChannelSettings ==
  Return("buildChannelSettings", buildChannelSettings(probe.arg))

ApplyBuildChannel == Return("buildChannel", buildChannel(probe.arg))

ApplyBuildLoRaConfig == Return("buildLoRaConfig", buildLoRaConfig(probe.arg))

ApplyBuildChannelSet == Return("buildChannelSet", buildChannelSet(probe.arg))

ApplyEncodeField ==
  Return("encodeField",
         encodeField(probe.arg.fieldNumber, probe.arg.wireType, probe.arg.data))

ApplyEncodeString ==
  Return("encodeString", encodeString(probe.arg.fieldNumber, probe.arg.str))

ApplyEncodeBytes ==
  Return("encodeBytes", encodeBytes(probe.arg.fieldNumber, probe.arg.bytes))

ApplyGeneratePSK == Return("generatePSK", generatePSK(probe.arg.bits, probe.arg.seed))

NextPure ==
  \/ ApplyEncodeVarint
  \/ ApplyBase64
  \/ ApplyBase64URL
  \/ ApplyBuildChannelSettings
  \/ ApplyBuildChannel
  \/ ApplyBuildLoRaConfig
  \/ ApplyBuildChannelSet
  \/ ApplyEncodeField
  \/ ApplyEncodeString
  \/ ApplyEncodeBytes
  \/ ApplyGeneratePSK

SpecPure == InitPure /\ [][NextPure]_vars

(***************************************************************************)
(* Properties.                                                             *)
(***************************************************************************)
\* A decoded varint field and a decoded length-delimited field
VarintField(num, value) == [ num |-> num, wt |-> 0, val |-> value, data |-> <<>> ]
BytesField(num, data) == [ num |-> num, wt |-> 2, val |-> Nm(0), data |-> data ]

\* The part of a URL after its first "#"
Fragment(url) ==
  LET h == CHOOSE i \in 1..Len(url) : url[i] = "#" /\ \A j \in 1..(i - 1) : url[j] # "#"
  IN SubSeq(url, h + 1, Len(url))

HasHash(url) == \E i \in 1..Len(url) : url[i] = "#"

\* The fields of the message in the bytes b, <<>> when b does not parse
Fields(b) == ParseMessage(b).fields

\* C1: with HYPHAE_MESH_CONFIG as constructed, the payload of the URL
\* returned by generateNetworkURL decodes to a ChannelSet holding exactly one Channel (index 0, role 1, settings with
\* psk = [0x01], no name, uplink_enabled = 1, downlink_enabled = 1) followed
\* by exactly one LoRaConfig (region 1, modem_preset 3, hop_limit 6 <= 7,
\* tx_enabled 1, tx_power 30), and nothing else.
C1_NetworkURLDecodes ==
  last.op = "network" =>
    /\ HasHash(last.url)
    /\ LET dec == fromBase64URL(Fragment(last.url))
           cs == ParseMessage(dec.bytes)
           ch == ParseMessage(cs.fields[1].data)
           st == ParseMessage(ch.fields[2].data)
           lo == ParseMessage(cs.fields[2].data)
       IN /\ dec.ok /\ cs.ok
          /\ Len(cs.fields) = 2
          /\ cs.fields[1].num = 1 /\ cs.fields[1].wt = 2
          /\ cs.fields[2].num = 2 /\ cs.fields[2].wt = 2
          /\ ch.ok /\ Len(ch.fields) = 3
          /\ ch.fields[1] = VarintField(1, Nm(0))
          /\ ch.fields[2].num = 2 /\ ch.fields[2].wt = 2
          /\ ch.fields[3] = VarintField(3, Nm(1))
          /\ st.ok
          /\ st.fields = << BytesField(2, <<1>>), VarintField(5, Nm(1)),
                            VarintField(6, Nm(1)) >>
          /\ lo.ok
          /\ lo.fields = << VarintField(3, Nm(1)), VarintField(4, Nm(3)),
                            VarintField(7, Nm(6)), VarintField(11, Nm(1)),
                            VarintField(12, Nm(30)) >>
          /\ SmallVal(lo.fields[3].val) <= 7

\* C1 witness: generateNetworkURL has returned, after an earlier call of a
\* generator.
C1_Witness ==
  /\ last.op = "network"
  /\ prev.op \in { "private", "url" }
  /\ Len(Fragment(last.url)) > 0

\* The schema table (spec section 4.3) applied to an input object: for
\* every property of the object that is set, the field it may appear as.
Opt(o, field) == IF IsDefined(o) THEN { field } ELSE {}
BoolNum(b) == IF b THEN Nm(1) ELSE Nm(0)

SettingsSchema(x) ==
  Opt(x.channelNum, VarintField(1, x.channelNum[1]))
  \cup Opt(x.psk, BytesField(2, x.psk[1]))
  \cup Opt(x.name, BytesField(3, TextEncode(x.name[1])))
  \cup Opt(x.uplinkEnabled, VarintField(5, BoolNum(x.uplinkEnabled[1])))
  \cup Opt(x.downlinkEnabled, VarintField(6, BoolNum(x.downlinkEnabled[1])))

ChannelSchema(x) ==
  Opt(x.index, VarintField(1, x.index[1]))
  \cup Opt(x.settings, BytesField(2, buildChannelSettings(x.settings[1])))
  \cup Opt(x.role, VarintField(3, x.role[1]))

LoRaSchema(x) ==
  Opt(x.region, VarintField(3, x.region[1]))
  \cup Opt(x.modemPreset, VarintField(4, x.modemPreset[1]))
  \cup Opt(x.hopLimit, VarintField(7, x.hopLimit[1]))
  \cup Opt(x.txEnabled, VarintField(11, BoolNum(x.txEnabled[1])))
  \cup Opt(x.txPower, VarintField(12, x.txPower[1]))

ChannelSetSchema(x) ==
  (IF IsDefined(x.channels)
   THEN { BytesField(1, buildChannel(x.channels[1][i])) : i \in 1..Len(x.channels[1]) }
   ELSE {})
  \cup Opt(x.lora, BytesField(2, buildLoRaConfig(x.lora[1])))

SchemaOf(fn, x) ==
  IF fn = "buildChannelSettings" THEN SettingsSchema(x)
  ELSE IF fn = "buildChannel" THEN ChannelSchema(x)
  ELSE IF fn = "buildLoRaConfig" THEN LoRaSchema(x)
  ELSE ChannelSetSchema(x)

BuilderNames ==
  { "buildChannelSettings", "buildChannel", "buildLoRaConfig", "buildChannelSet" }

\* C2: the output of each of the four builders parses as a protobuf message
\* in which every field is a property of the input under the field number
\* and wire type the schema table gives it (channel_num 1, psk 2, name 3,
\* uplink_enabled 5, downlink_enabled 6; index 1, settings 2, role 3;
\* region 3, modem_preset 4, hop_limit 7, tx_enabled 11, tx_power 12;
\* channels 1, lora_config 2); no other field number is emitted.
C2_SchemaFieldNumbers ==
  (probe.done /\ probe.fn \in BuilderNames) =>
    LET m == ParseMessage(probe.out)
    IN /\ m.ok
       /\ \A i \in 1..Len(m.fields) : m.fields[i] \in SchemaOf(probe.fn, probe.arg)

\* C2 witness: buildLoRaConfig has returned a message with all five fields,
\* the two-byte hop limit 200 among them.
C2_Witness ==
  /\ probe.done
  /\ probe.fn = "buildLoRaConfig"
  /\ Len(Fields(probe.out)) = 5
  /\ probe.arg.hopLimit = Some(Nm(200))

\* The base URL of a result: everything before its first "#"
BaseOf(url) == SubSeq(url, 1, Len(url) - Len(Fragment(url)) - 1)

\* C3 as stated: generateURL returns baseURL + "#" + payload for the base
\* URL the caller gives.
C3_CallerBaseURL ==
  last.op = "url" =>
    last.url = last.base \o <<"#">> \o uint8ArrayToBase64URL(buildChannelSet(Val(last.cfg)))

\* C3 amended: generateMeshtasticURL takes the config only; its result is
\* the fixed base "https://meshtastic.org/e/", one "#", and a fragment that
\* is unpadded base64url and decodes to exactly the bytes of
\* buildChannelSet(config) (no length prefix, no outer field), whatever base
\* URL the caller wants.
C3_FixedBaseURL ==
  last.op = "url" =>
    /\ HasHash(last.url)
    /\ BaseOf(last.url) = MESHTASTIC_BASE
    /\ SubSeq(last.url, 1, 8) = << "h", "t", "t", "p", "s", ":", "/", "/" >>
    /\ SubSeq(BaseOf(last.url), Len(BaseOf(last.url)) - 2, Len(BaseOf(last.url)))
         = << "/", "e", "/" >>
    /\ \A i \in 1..Len(Fragment(last.url)) : Fragment(last.url)[i] \notin { "=", "#", "+", "/" }
    /\ fromBase64URL(Fragment(last.url))
         = [ ok |-> TRUE, bytes |-> buildChannelSet(Val(last.cfg)) ]

\* C3 witness: a URL was generated for a two-channel config by a caller
\* that wanted another base URL.
C3_Witness ==
  /\ last.op = "url"
  /\ last.base = OTHER_BASE
  /\ IsDefined(Val(last.cfg).channels)
  /\ Len(Val(Val(last.cfg).channels)) = 2

\* The name a private channel is given: the caller's, or "Private" when
\* the caller gives none or an empty one
PrivateNameOf(name) ==
  IF name = Undefined \/ name = Some(<<>>) THEN PRIVATE_NAME ELSE name[1]

\* Standard base64 text: the alphabet with + and /, padded with = to a
\* multiple of four characters
IsStandardBase64(str) ==
  /\ Len(str) % 4 = 0
  /\ \A i \in 1..Len(str) :
       \/ IsB64Char(str[i])
       \/ str[i] = "=" /\ i > Len(str) - 2 /\ \A j \in i..Len(str) : str[j] = "="

\* C4: generatePrivateChannelURL returns {url, psk} where the url payload
\* decodes to a ChannelSet with exactly one Channel, of role 1, whose
\* settings hold exactly the generated key in psk, the name, and
\* uplink_enabled = 0 and downlink_enabled = 0; the returned psk is the
\* standard base64 (+, / and = padding) of the same key bytes.
C4_PrivateChannelURL ==
  last.op = "private" =>
    /\ HasHash(last.url)
    /\ LET dec == fromBase64URL(Fragment(last.url))
           cs == ParseMessage(dec.bytes)
           chans == { i \in 1..Len(cs.fields) : cs.fields[i].num = 1 }
           ch == ParseMessage(cs.fields[1].data)
           st == ParseMessage(ch.fields[2].data)
       IN /\ dec.ok /\ cs.ok
          /\ chans = { 1 }
          /\ cs.fields[1].wt = 2
          /\ ch.ok /\ Len(ch.fields) = 3
          /\ ch.fields[2].num = 2 /\ ch.fields[2].wt = 2
          /\ ch.fields[3] = VarintField(3, Nm(1))
          /\ st.ok
          /\ st.fields = << BytesField(2, last.draw),
                            BytesField(3, TextEncode(PrivateNameOf(last.name))),
                            VarintField(5, Nm(0)), VarintField(6, Nm(0)) >>
    /\ IsStandardBase64(last.psk)
    /\ base64ToUint8Array(last.psk) = last.draw

\* C4 witness: a private channel was generated without a name, and the
\* base64 of its key uses "+", "/" and "=".
C4_Witness ==
  /\ last.op = "private"
  /\ last.name = Undefined
  /\ \A c \in { "+", "/", "=" } : \E i \in 1..Len(last.psk) : last.psk[i] = c

\* C5: of two successive generatePrivateChannelURL calls with the same
\* name, each with its own key drawn from the random source, distinct keys
\* give distinct URLs and distinct psk strings; every returned psk
\* base64-decodes to exactly 32 bytes.
C5_PrivateChannelIsolation ==
  /\ last.op = "private" =>
       /\ IsStandardBase64(last.psk)
       /\ Len(base64ToUint8Array(last.psk)) = 32
  /\ (last.op = "private" /\ prev.op = "private" /\ last.name = prev.name
      /\ last.draw # prev.draw) =>
       /\ last.url # prev.url
       /\ last.psk # prev.psk
       /\ fromBase64URL(Fragment(last.url)).bytes # fromBase64URL(Fragment(prev.url)).bytes

\* C5 witness: generatePrivateChannelURL("Test") was called twice in a row
\* and the random source gave two different keys.
C5_Witness ==
  /\ last.op = "private" /\ prev.op = "private"
  /\ last.name = Some(NAME_TEST) /\ prev.name = Some(NAME_TEST)
  /\ last.draw # prev.draw

\* C7: the encoder keeps no state between calls: whatever the caller does
\* through window.HyphaeMesh between them, generateNetworkURL returns the
\* URL it returned on its first call, and generateMeshtasticURL returns the
\* same URL for the same config.
C7_NoStateBetweenCalls ==
  /\ last.op = "network" => firstNet = Some(last.url)
  /\ (last.op = "url" /\ prev.op = "url" /\ last.cfg = prev.cfg) => last.url = prev.url

\* A-Z a-z 0-9 - _
UrlSafeChars ==
  ({ B64_ALPHABET[i] : i \in 1..64 } \ { "+", "/" }) \cup { "-", "_" }

\* Number of "=" in str
Padding(str) == Cardinality({ i \in 1..Len(str) : str[i] = "=" })

\* C8: the output of uint8ArrayToBase64URL contains none of "+", "/", "=":
\* every character is in A-Z a-z 0-9 - _, and the output is the standard
\* base64 text of the bytes, character by character, with "+" as "-", "/"
\* as "_" and the padding removed.
C8_Base64URLAlphabet ==
  (probe.done /\ probe.fn = "uint8ArrayToBase64URL") =>
    LET std == btoa(probe.arg)
    IN /\ \A i \in 1..Len(probe.out) : probe.out[i] \in UrlSafeChars
       /\ Len(probe.out) = Len(std) - Padding(std)
       /\ \A i \in 1..Len(probe.out) :
            probe.out[i] = IF std[i] = "+" THEN "-"
                           ELSE IF std[i] = "/" THEN "_" ELSE std[i]

\* C8 witness: toBase64URL has encoded bytes whose standard base64 text
\* holds "+", "/" and "=".
C8_Witness ==
  /\ probe.done
  /\ probe.fn = "uint8ArrayToBase64URL"
  /\ \A c \in { "+", "/", "=" } : \E i \in 1..Len(btoa(probe.arg)) : btoa(probe.arg)[i] = c

\* The prefixes of str whose length is 1 mod 4, and str with one more
\* character when that makes its length 1 mod 4
BadLengthStrings(str) ==
  { SubSeq(str, 1, k) : k \in { j \in 1..Len(str) : j % 4 = 1 } }
  \cup (IF Len(str) % 4 = 0 THEN { str \o <<"A">> } ELSE {})

\* C9: fromBase64URL(toBase64URL(b)) = b for every byte sequence b; the
\* length of toBase64URL(b) is never 1 mod 4, and the decoder rejects a
\* string of such a length.
C9_Base64URLRoundTrip ==
  (probe.done /\ probe.fn = "uint8ArrayToBase64URL") =>
    /\ fromBase64URL(probe.out) = [ ok |-> TRUE, bytes |-> probe.arg ]
    /\ Len(probe.out) % 4 # 1
    /\ \A bad \in BadLengthStrings(probe.out) : ~fromBase64URL(bad).ok

\* C9 witness: a byte sequence of the greatest length was encoded, its text
\* needed re-padding or held a substituted character, and it decoded back.
C9_Witness ==
  /\ probe.done
  /\ probe.fn = "uint8ArrayToBase64URL"
  /\ Len(probe.arg) = MaxBytes
  /\ \E i \in 1..Len(probe.out) : probe.out[i] \in { "-", "_" }
  /\ fromBase64URL(probe.out).bytes = probe.arg

\* C10: decodeVarint(encodeVarint(x), 0) = (x, n) for every non-negative
\* integer x, n being the number of bytes encodeVarint produced, also for
\* x >= 2^32.
C10_VarintRoundTrip ==
  (probe.done /\ probe.fn = "encodeVarint" /\ ~probe.arg.neg) =>
    decodeVarint(probe.out, 0)
      = [ ok |-> TRUE, value |-> probe.arg, n |-> Len(probe.out) ]

(***************************************************************************)
(* Reference encoding (spec sections 4.1, 4.2) of small naturals and of    *)
(* decoded fields, used to state what the bytes of an output must be.      *)
(***************************************************************************)
\* The minimal base-128 little-endian form of a natural below 2^31
RECURSIVE RefVarint(_)
RefVarint(n) ==
  IF n < 128 THEN <<n>> ELSE <<128 + (n % 128)>> \o RefVarint(n \div 128)

\* tag, then the value or the length and the payload
RefField(f) ==
  RefVarint((f.num * 8) + f.wt)
  \o (IF f.wt = 0 THEN RefVarint(SmallVal(f.val))
      ELSE RefVarint(Len(f.data)) \o f.data)

RECURSIVE RefMessage(_)
RefMessage(fields) ==
  IF fields = <<>> THEN <<>> ELSE RefField(Head(fields)) \o RefMessage(Tail(fields))

\* The field numbers of the properties of the input that are unset
Unset(o, num) == IF IsDefined(o) THEN {} ELSE { num }

UnsetNumbers(fn, x) ==
  IF fn = "buildChannelSettings"
  THEN Unset(x.channelNum, 1) \cup Unset(x.psk, 2) \cup Unset(x.name, 3)
       \cup Unset(x.uplinkEnabled, 5) \cup Unset(x.downlinkEnabled, 6)
  ELSE IF fn = "buildChannel"
  THEN Unset(x.index, 1) \cup Unset(x.settings, 2) \cup Unset(x.role, 3)
  ELSE IF fn = "buildLoRaConfig"
  THEN Unset(x.region, 3) \cup Unset(x.modemPreset, 4) \cup Unset(x.hopLimit, 7)
       \cup Unset(x.txEnabled, 11) \cup Unset(x.txPower, 12)
  ELSE Unset(x.channels, 1) \cup Unset(x.lora, 2)

\* The field numbers of the builder's message
AllNumbers(fn) ==
  IF fn = "buildChannelSettings" THEN { 1, 2, 3, 5, 6 }
  ELSE IF fn = "buildChannel" THEN { 1, 2, 3 }
  ELSE IF fn = "buildLoRaConfig" THEN { 3, 4, 7, 11, 12 }
  ELSE { 1, 2 }

\* C11: omission rule.  In the output of each builder a property that is
\* unset contributes zero bytes: no field of its number is in the output,
\* and the output is exactly the encodings of the fields of the properties
\* that are set, one after the other, with nothing in the place of the
\* unset ones (an input with every property unset gives the empty message).
C11_OmissionRule ==
  (probe.done /\ probe.fn \in BuilderNames) =>
    LET m == ParseMessage(probe.out)
        unset == UnsetNumbers(probe.fn, probe.arg)
    IN /\ m.ok
       /\ \A i \in 1..Len(m.fields) : m.fields[i].num \notin unset
       /\ probe.out = RefMessage(m.fields)
       /\ unset = AllNumbers(probe.fn) => probe.out = <<>>

\* C11 witness: buildChannel has returned for a channel with settings and
\* role set and index unset.
C11_Witness ==
  /\ probe.done
  /\ probe.fn = "buildChannel"
  /\ ~IsDefined(probe.arg.index)
  /\ IsDefined(probe.arg.settings)
  /\ IsDefined(probe.arg.role)
  /\ Len(Fields(probe.out)) = 2

\* C12: buildChannelSettings writes channel_num (field 1) only when
\* channelNum > 0.  With channelNum 0 or unset the output has no field 1
\* (and does not start with the tag 0x08); with channelNum = n > 0 the
\* output starts with the tag 0x08 followed by the varint of n (0x08 0x03
\* for n = 3).
C12_ChannelNumOnlyWhenPositive ==
  (probe.done /\ probe.fn = "buildChannelSettings") =>
    LET cn == probe.arg.channelNum
        out == probe.out
    IN IF IsDefined(cn) /\ SmallVal(Val(cn)) > 0
       THEN LET v == RefVarint(SmallVal(Val(cn)))
            IN /\ Len(out) >= 1 + Len(v)
               /\ SubSeq(out, 1, 1 + Len(v)) = <<8>> \o v
               /\ decodeVarint(out, 1) = [ ok |-> TRUE, value |-> Val(cn), n |-> Len(v) ]
               /\ Val(cn) = Nm(3) => SubSeq(out, 1, 2) = <<8, 3>>
       ELSE /\ ParseMessage(out).ok
            /\ \A i \in 1..Len(Fields(out)) : Fields(out)[i].num # 1
            /\ out # <<>> => out[1] # 8

\* C12 witness: buildChannelSettings has returned for channelNum 300 and a
\* psk, the output starting with 0x08 and the two-byte varint of 300.
C12_Witness ==
  /\ probe.done
  /\ probe.fn = "buildChannelSettings"
  /\ probe.arg.channelNum = Some(Nm(300))
  /\ IsDefined(probe.arg.psk)
  /\ SubSeq(probe.out, 1, 3) = <<8, 172, 2>>

\* C13: buildChannelSet keeps the order of the channels.  For a config with
\* k channels the output has exactly k occurrences of field 1, the i-th of
\* them the length-delimited encoding of buildChannel(channels[i]) (none
\* merged, dropped or reordered), and lora_config (field 2), when set, is
\* the one field after all of them.
C13_ChannelOrder ==
  (probe.done /\ probe.fn = "buildChannelSet") =>
    LET chs == IF IsDefined(probe.arg.channels) THEN Val(probe.arg.channels) ELSE <<>>
        k == Len(chs)
        m == ParseMessage(probe.out)
        f == m.fields
    IN /\ m.ok
       /\ Len(f) = k + (IF IsDefined(probe.arg.lora) THEN 1 ELSE 0)
       /\ \A i \in 1..k : f[i] = BytesField(1, buildChannel(chs[i]))
       /\ Cardinality({ i \in 1..Len(f) : f[i].num = 1 }) = k
       /\ IsDefined(probe.arg.lora) => (f[k + 1].num = 2 /\ f[k + 1].wt = 2)

\* C13 witness: buildChannelSet has returned for two different channels
\* followed by a LoRa config.
C13_Witness ==
  /\ probe.done
  /\ probe.fn = "buildChannelSet"
  /\ probe.arg.channels = Some(<<SecondaryChannel, PublicChannel>>)
  /\ IsDefined(probe.arg.lora)
  /\ Len(Fields(probe.out)) = 3

\* The fields a generic decoder finds in the bytes b are all fields of the
\* schema set
DecodesWithin(b, schema) ==
  /\ ParseMessage(b).ok
  /\ \A i \in 1..Len(Fields(b)) : Fields(b)[i] \in schema

\* C14: length-delimited nesting.  A generic decoder finds in the bytes of
\* buildChannel(channel), for a channel with settings, field 2 as one
\* length-delimited blob: the tag 0x12, then a varint whose value is the
\* byte length of buildChannelSettings(settings), then exactly those bytes,
\* which decode as a ChannelSettings message.  In the bytes of
\* buildChannelSet each field-1 blob has the byte length of the
\* buildChannel bytes of its channel and decodes as a Channel, and the
\* field-2 blob is the buildLoRaConfig bytes and decodes as a LoRaConfig.
C14_LengthDelimitedNesting ==
  /\ (probe.done /\ probe.fn = "buildChannel" /\ IsDefined(probe.arg.settings)) =>
       LET st == buildChannelSettings(Val(probe.arg.settings))
           off == IF IsDefined(probe.arg.index)
                  THEN Len(RefField(VarintField(1, Val(probe.arg.index)))) ELSE 0
           len == decodeVarint(probe.out, off + 1)
           blobs == { i \in 1..Len(Fields(probe.out)) : Fields(probe.out)[i].num = 2 }
       IN /\ ParseMessage(probe.out).ok
          /\ Cardinality(blobs) = 1
          /\ \A i \in blobs : Fields(probe.out)[i] = BytesField(2, st)
          /\ probe.out[off + 1] = 18
          /\ len.ok /\ len.value = Nm(Len(st))
          /\ SubSeq(probe.out, off + 1 + len.n + 1, off + 1 + len.n + Len(st)) = st
          /\ DecodesWithin(st, SettingsSchema(Val(probe.arg.settings)))
  /\ (probe.done /\ probe.fn = "buildChannelSet") =>
       LET chs == IF IsDefined(probe.arg.channels) THEN Val(probe.arg.channels) ELSE <<>>
           f == Fields(probe.out)
       IN /\ ParseMessage(probe.out).ok
          /\ \A i \in 1..Len(f) :
               /\ f[i].wt = 2
               /\ f[i].num = 1 =>
                    /\ i <= Len(chs)
                    /\ Len(f[i].data) = Len(buildChannel(chs[i]))
                    /\ DecodesWithin(f[i].data, ChannelSchema(chs[i]))
               /\ f[i].num = 2 =>
                    /\ IsDefined(probe.arg.lora)
                    /\ f[i].data = buildLoRaConfig(Val(probe.arg.lora))
                    /\ DecodesWithin(f[i].data, LoRaSchema(Val(probe.arg.lora)))

\* C14 witness: buildChannel has returned for a channel with an index and
\* named settings, the settings blob longer than its own fields' tags.
C14_Witness ==
  /\ probe.done
  /\ probe.fn = "buildChannel"
  /\ IsDefined(probe.arg.index)
  /\ probe.arg.settings = Some(SecondarySettings)
  /\ Len(Fields(probe.out)) >= 2
  /\ Len(Fields(probe.out)[2].data) > 4

\* C15: a negative integer given to the varint encoder, directly or as the
\* value of a VARINT field (the path of encodeUint32 for index, channelNum,
\* role, region, modemPreset, hopLimit, txPower), makes the call fail: the
\* call never returns bytes.
C15_NegativeVarintFails ==
  /\ (probe.fn = "encodeVarint" /\ probe.arg.neg) => ~probe.done
  /\ (probe.fn = "encodeField" /\ probe.arg.wireType = WIRE_VARINT /\ probe.arg.data.neg)
       => ~probe.done

\* The failing case of C15: encodeVarint(-1) has returned the byte 0x7f
C15_NegativeWrapped ==
  /\ probe.done
  /\ probe.fn = "encodeVarint"
  /\ probe.arg = Nm(-1)
  /\ probe.out = <<127>>

\* C16: the hop limit never exceeds 7 on the wire.  buildLoRaConfig called
\* with a hopLimit outside 0..7 fails (it never returns bytes), and in every
\* message it returns the hop_limit field (7), when present, has a value in
\* 0..7.
C16_HopLimitAtMost7 ==
  /\ (probe.fn = "buildLoRaConfig" /\ IsDefined(probe.arg.hopLimit)
      /\ SmallVal(Val(probe.arg.hopLimit)) \notin 0..7) => ~probe.done
  /\ (probe.fn = "buildLoRaConfig" /\ probe.done) =>
       \A i \in 1..Len(Fields(probe.out)) :
         Fields(probe.out)[i].num = 7 => SmallVal(Fields(probe.out)[i].val) \in 0..7

\* The failing case of C16: buildLoRaConfig({hopLimit: 200}) has returned
\* the field 0x38 0xc8 0x01
C16_HopLimit200Encoded ==
  /\ probe.done
  /\ probe.fn = "buildLoRaConfig"
  /\ probe.arg = [ region |-> Undefined, modemPreset |-> Undefined,
                   hopLimit |-> Some(Nm(200)), txEnabled |-> Undefined,
                   txPower |-> Undefined ]
  /\ probe.out = <<56, 200, 1>>

\* C17: generatePSK(bits) fails when bits is no multiple of 8 (it never
\* returns a key), and a key it returns has exactly bits / 8 bytes, 32 for
\* the default 256: never fewer bytes than requested because a fractional
\* byte count was rounded down.
C17_GeneratePSKLength ==
  probe.fn = "generatePSK" =>
    /\ probe.arg.bits % 8 # 0 => ~probe.done
    /\ probe.done => Len(base64ToUint8Array(probe.out)) * 8 = probe.arg.bits
    /\ (probe.done /\ probe.arg.bits = 256) => Len(base64ToUint8Array(probe.out)) = 32

\* The failing case of C17: generatePSK(12) has returned a key of one byte
C17_TwelveBitsOneByte ==
  /\ probe.done
  /\ probe.fn = "generatePSK"
  /\ probe.arg.bits = 12
  /\ Len(base64ToUint8Array(probe.out)) = 1

\* Bits 7k .. 7k+6 of a non-negative number, k in 0..8
NumGroup(v, k) ==
  IF k = 0 THEN v.w0 % 128
  ELSE IF k = 1 THEN (v.w0 \div 128) % 128
  ELSE IF k = 2 THEN (v.w0 \div 16384) + ((v.w1 % 32) * 4)
  ELSE IF k = 3 THEN (v.w1 \div 32) % 128
  ELSE IF k = 4 THEN (v.w1 \div 4096) + ((v.hi % 8) * 16)
  ELSE IF k = 5 THEN (v.hi \div 8) % 128
  ELSE IF k = 6 THEN (v.hi \div 1024) % 128
  ELSE IF k = 7 THEN (v.hi \div 131072) % 128
  ELSE (v.hi \div 16777216) % 128

\* C18: for every non-negative integer v, encodeVarint(v) is the minimal
\* base-128 little-endian form of v: at least one byte; byte i carries bits
\* 7i .. 7i+6 of v in its low seven bits; every byte but the last has the
\* high bit set and the last has it clear; no bit of v is left out; the
\* last byte is non-zero unless v = 0, which is the single byte 0x00.
C18_VarintBitLayout ==
  (probe.done /\ probe.fn = "encodeVarint" /\ ~probe.arg.neg) =>
    LET out == probe.out
        n == Len(out)
    IN /\ n >= 1
       /\ n <= 9
       /\ \A i \in 1..n :
            /\ out[i] % 128 = NumGroup(probe.arg, i - 1)
            /\ (out[i] >= 128) = (i < n)
       /\ \A k \in n..8 : NumGroup(probe.arg, k) = 0
       /\ IF probe.arg = Nm(0) THEN out = <<0>> ELSE out[n] # 0

\* The failing case of C18: encodeVarint(2^32) has returned 0x80 0x00
C18_TruncatedAt32Bits ==
  /\ probe.done
  /\ probe.fn = "encodeVarint"
  /\ probe.arg = Big(1, 0, 0)
  /\ probe.out = <<128, 0>>

\* tag ++ varint(length) ++ payload
RefLengthDelimited(fieldNumber, payload) ==
  RefVarint((fieldNumber * 8) + WIRE_LENGTH_DELIMITED)
  \o RefVarint(Len(payload)) \o payload

\* C19: encodeField(fieldNumber, wireType, data) always starts with the
\* varint of (fieldNumber << 3) | wireType.  For VARINT the rest is exactly
\* the varint of data; for LENGTH_DELIMITED the rest is the varint of the
\* payload's byte length followed by the payload unchanged, the length
\* varint taking more than one byte for a payload of 128 bytes or more.
\* encodeString (over the UTF-8 bytes of the string) and encodeBytes give
\* the same form.
C19_FieldEncoding ==
  /\ (probe.done /\ probe.fn = "encodeField") =>
       LET tag == RefVarint((probe.arg.fieldNumber * 8) + probe.arg.wireType)
           out == probe.out
           data == probe.arg.data
           rest == SubSeq(out, Len(tag) + 1, Len(out))
       IN /\ Len(out) >= Len(tag)
          /\ SubSeq(out, 1, Len(tag)) = tag
          /\ probe.arg.wireType = WIRE_VARINT =>
               /\ rest = encodeVarint(data)
               /\ (~data.neg /\ data.hi = 0 /\ data.w1 < 32768) =>
                    rest = RefVarint(SmallVal(data))
          /\ probe.arg.wireType = WIRE_LENGTH_DELIMITED =>
               /\ out = RefLengthDelimited(probe.arg.fieldNumber, data)
               /\ Len(data) >= 128 => Len(out) >= Len(tag) + 2 + Len(data)
  /\ (probe.done /\ probe.fn = "encodeString") =>
       probe.out = RefLengthDelimited(probe.arg.fieldNumber, TextEncode(probe.arg.str))
  /\ (probe.done /\ probe.fn = "encodeBytes") =>
       probe.out = RefLengthDelimited(probe.arg.fieldNumber, probe.arg.bytes)

\* C19 witness: encodeField has returned for field 16 (a two-byte tag) and
\* a payload of 128 bytes (a two-byte length).
C19_Witness ==
  /\ probe.done
  /\ probe.fn = "encodeField"
  /\ probe.arg.fieldNumber = 16
  /\ probe.arg.wireType = WIRE_LENGTH_DELIMITED
  /\ Len(probe.arg.data) = 128
  /\ SubSeq(probe.out, 1, 4) = <<130, 1, 128, 1>>
  /\ Len(probe.out) = 132

\* The encoded fields a builder collects for the input x
PartsOf(fn, x) ==
  IF fn = "buildChannelSettings" THEN ChannelSettingsParts(x)
  ELSE IF fn = "buildChannel" THEN ChannelParts(x)
  ELSE IF fn = "buildLoRaConfig" THEN LoRaConfigParts(x)
  ELSE ChannelSetParts(x)

RECURSIVE SumOfLengths(_)
SumOfLengths(arrays) ==
  IF arrays = <<>> THEN 0 ELSE Len(Head(arrays)) + SumOfLengths(Tail(arrays))

\* C20: in the output of every builder the fields present are in strictly
\* ascending field-number order (the repeated field 1 of a ChannelSet in
\* adjacent positions), and there is no separator or extra byte: the output
\* is the fields' encodings one after the other and its length is the sum
\* of the lengths of the encoded fields the builder collected.
C20_AscendingExactConcatenation ==
  (probe.done /\ probe.fn \in BuilderNames) =>
    LET m == ParseMessage(probe.out)
        f == m.fields
        parts == PartsOf(probe.fn, probe.arg)
    IN /\ m.ok
       /\ \A i, j \in 1..Len(f) :
            i < j => \/ f[i].num < f[j].num
                     \/ /\ probe.fn = "buildChannelSet"
                        /\ f[i].num = 1
                        /\ f[j].num = 1
       /\ Len(f) = Len(parts)
       /\ \A i \in 1..Len(f) : RefField(f[i]) = parts[i]
       /\ probe.out = RefMessage(f)
       /\ Len(probe.out) = SumOfLengths(parts)

\* C20 witness: buildChannelSettings has returned a message with all five
\* fields, 1, 2, 3, 5 and 6.
C20_Witness ==
  /\ probe.done
  /\ probe.fn = "buildChannelSettings"
  /\ Len(Fields(probe.out)) = 5
  /\ Fields(probe.out)[1].num = 1
  /\ Fields(probe.out)[5].num = 6

(***************************************************************************)
(* encodeVarint statement by statement: the test of the while loop, its    *)
(* body, and the push after the loop.                                      *)
(***************************************************************************)
MaxLoopValue == 200   \* the values 0..MaxLoopValue are among the inputs

LoopInputs == VarintInputs \cup { Nm(i) : i \in 0..MaxLoopValue }

\* encodeVarint(value) entered: const bytes = []
InitLoop ==
  /\ IdleExcept("loop")
  /\ loop \in { [ pc |-> "while", input |-> v, value |-> v, bytes |-> <<>>, iters |-> 0 ] :
                v \in LoopInputs }

\* Mutant: the body without `value >>>= 7`
LoopBody_noShift ==
  /\ loop.pc = "while"
  /\ Gt7f(loop.value)
  /\ loop' = [ loop EXCEPT !.bytes = Append(@, And7f(loop.value) + 128),
                           !.iters = @ + 1 ]
  /\ UNCHANGED notLoop

\* while (value > 0x7f) { bytes.push((value & 0x7f) | 0x80); value >>>= 7; }
LoopBody ==
  /\ loop.pc = "while"
  /\ Gt7f(loop.value)
  /\ loop' = [ loop EXCEPT !.bytes = Append(@, And7f(loop.value) + 128),
                           !.value = Ushr7(loop.value),
                           !.iters = @ + 1 ]
  /\ UNCHANGED notLoop

\* the loop test fails: bytes.push(value & 0x7f); return new Uint8Array(bytes)
LoopExit ==
  /\ loop.pc = "while"
  /\ ~Gt7f(loop.value)
  /\ loop' = [ loop EXCEPT !.bytes = Append(@, And7f(loop.value)), !.pc = "return" ]
  /\ UNCHANGED notLoop

NextLoop ==
  \/ LoopBody
  \/ LoopExit

SpecLoop == InitLoop /\ [][NextLoop]_vars

\* The JavaScript engine runs a started call to its end
SpecLoopFair == SpecLoop /\ WF_vars(NextLoop)

\* Number of 7-bit groups of the magnitude of v up to its highest set bit,
\* 1 for 0
GroupCount(v) ==
  CHOOSE n \in 1..9 :
    /\ \A k \in n..8 : NumGroup(v, k) = 0
    /\ n = 1 \/ NumGroup(v, n - 1) # 0

\* C21: every execution of encodeVarint terminates: for every integer input
\* (zero, 128 and above, 2^32 and above, negative) the loop reaches its
\* return, the number of iterations of the loop body never exceeds the
\* number of 7-bit groups of the value, and the bytes it returns are the
\* ones the builders and URL generators get from encodeVarint.
C21_EncodeVarintTerminates ==
  /\ [](loop.iters <= GroupCount(loop.input))
  /\ [](loop.pc = "return" => loop.bytes = encodeVarint(loop.input))
  /\ <>(loop.pc = "return")

\* C21 witness: the execution for 2^32 has returned after one iteration.
C21_Witness ==
  /\ loop.pc = "return"
  /\ loop.input = Big(1, 0, 0)
  /\ loop.iters = 1

(***************************************************************************)
(* ConversationManager (src/unnamed/part_001): createDM and createGroup    *)
(* over the IndexedDB stores.  Each call awaits db.getAll, picks a channel *)
(* and awaits db.put; other calls run while it waits.                      *)
(***************************************************************************)
MaxCalls == 3        \* most calls of the conversation manager and delete in a run

\* [1, 2, 3, 4, 5, 6, 7]
CHANNEL_SLOTS == <<1, 2, 3, 4, 5, 6, 7>>

MAX_CONVERSATIONS_MESSAGE == "Maximum conversations reached (7)"

\* conversations.map(c => c.channelIndex)
usedChannels(conversations) == { c.channelIndex : c \in conversations }

\* Mutant: the last free slot instead of the first
availableChannel_lastFree(used) ==
  LET free == { k \in 1..Len(CHANNEL_SLOTS) : CHANNEL_SLOTS[k] \notin used }
  IN IF free = {} THEN Undefined
     ELSE Some(CHANNEL_SLOTS[CHOOSE k \in free : \A m \in free : m <= k])

\* Mutant: slot 1 taken again when no slot is free
availableChannel_reuseFirst(used) ==
  LET free == { k \in 1..Len(CHANNEL_SLOTS) : CHANNEL_SLOTS[k] \notin used }
  IN IF free = {} THEN Some(CHANNEL_SLOTS[1])
     ELSE Some(CHANNEL_SLOTS[CHOOSE k \in free : \A m \in free : k <= m])

\* [1, ..., 7].find(i => !usedChannels.includes(i)): undefined when none
availableChannel(used) ==
  LET free == { k \in 1..Len(CHANNEL_SLOTS) : CHANNEL_SLOTS[k] \notin used }
  IN IF free = {} THEN Undefined
     ELSE Some(CHANNEL_SLOTS[CHOOSE k \in free : \A m \in free : k <= m])

\* !availableChannel: undefined (or 0) is falsy
NoneAvailable(slot) == IF IsDefined(slot) THEN Val(slot) = 0 ELSE TRUE

\* The conversations left in the store by k earlier creations, one after
\* the other
StoredBy(k) ==
  { [ id |-> 10 + j, channelIndex |-> CHANNEL_SLOTS[j], type |-> "dm" ] : j \in 1..k }

ContactInputs == { "!0a1b2c3d" }

NoContact == ""

\* A call just made: db.getAll('conversations') is pending
NewCreate(kind, contact) ==
  [ kind |-> kind, contact |-> contact, pc |-> "getAll", seen |-> {},
    channel |-> 0, queuedAt |-> 0, before |-> {}, error |-> "",
    target |-> 0, snapshot |-> {} ]

\* The conversation id given to markAsRead, sendMessage and delete: the
\* first conversation of an earlier session (missing in an empty store)
ConversationIdInputs == { 11 }

NOT_FOUND_MESSAGE == "Conversation not found"

\* A call of markAsRead or sendMessage just made: db.get is pending
NewWriteBack(kind, conversationId) ==
  [ NewCreate(kind, NoContact) EXCEPT !.pc = "get", !.target = conversationId ]

\* The calls made so far
CallsMade == Len(creates) + store.deleted

\* The number of conversations earlier sessions left: none, some, all but one
\* of the seven slots, all seven
StoredInputs == { 0, 3, 6, 7 }

InitConversations ==
  /\ IdleExcept("conversations")
  /\ store \in { [ conversations |-> StoredBy(k), contacts |-> {}, deleted |-> 0 ] :
                 k \in StoredInputs }
  /\ creates = <<>>

\* createDM(contact) is called
CallCreateDM ==
  \E contact \in ContactInputs :
    /\ CallsMade < MaxCalls
    /\ creates' = Append(creates, NewCreate("dm", contact))
    /\ UNCHANGED <<store, notConversations>>

\* createGroup(name, participants) is called
CallCreateGroup ==
  /\ CallsMade < MaxCalls
  /\ creates' = Append(creates, NewCreate("group", NoContact))
  /\ UNCHANGED <<store, notConversations>>

\* IndexedDB runs a read after every write to the same store that was
\* queued before the read was requested
ReadMayRun(i) ==
  \A j \in 1..Len(creates) :
    creates[j].pc \in { "putConversation", "putBack" } => i <= creates[j].queuedAt

\* db.getAll resolves with a free slot: the conversation is built and
\* db.put('conversations', conversation) is queued
CreateFindsChannel(i) ==
  LET seen == store.conversations
      slot == availableChannel(usedChannels(seen))
  IN /\ creates[i].pc = "getAll"
     /\ ReadMayRun(i)
     /\ ~NoneAvailable(slot)
     /\ creates' = [ creates EXCEPT ![i].pc = "putConversation",
                                    ![i].seen = seen,
                                    ![i].channel = Val(slot),
                                    ![i].queuedAt = Len(creates) ]
     /\ UNCHANGED <<store, notConversations>>

\* db.getAll resolves with no free slot: if (!availableChannel) throw
CreateThrows(i) ==
  LET seen == store.conversations
      slot == availableChannel(usedChannels(seen))
  IN /\ creates[i].pc = "getAll"
     /\ ReadMayRun(i)
     /\ NoneAvailable(slot)
     /\ creates' = [ creates EXCEPT ![i].pc = "thrown",
                                    ![i].seen = seen,
                                    ![i].error = MAX_CONVERSATIONS_MESSAGE ]
     /\ UNCHANGED <<store, notConversations>>

\* db.put('conversations', conversation) completes; createGroup returns,
\* createDM goes on to db.put('contacts', contact)
PutConversation(i) ==
  /\ creates[i].pc = "putConversation"
  /\ store' = [ store EXCEPT !.conversations =
                  @ \cup { [ id |-> i, channelIndex |-> creates[i].channel,
                             type |-> creates[i].kind ] } ]
  /\ creates' = [ creates EXCEPT ![i].pc = IF creates[i].kind = "dm"
                                           THEN "putContact" ELSE "returned",
                                 ![i].before = store.conversations ]
  /\ UNCHANGED notConversations

\* db.put('contacts', contact) completes (the store is keyed by id);
\* createDM returns
PutContact(i) ==
  /\ creates[i].pc = "putContact"
  /\ store' = [ store EXCEPT !.contacts =
                  { c \in @ : c.id # creates[i].contact }
                  \cup { [ id |-> creates[i].contact, by |-> i ] } ]
  /\ creates' = [ creates EXCEPT ![i].pc = "returned" ]
  /\ UNCHANGED notConversations

\* markAsRead(conversationId) is called
CallMarkAsRead ==
  \E conversationId \in ConversationIdInputs :
    /\ CallsMade < MaxCalls
    /\ creates' = Append(creates, NewWriteBack("markAsRead", conversationId))
    /\ UNCHANGED <<store, notConversations>>

\* sendMessage(conversationId, text) is called
CallSendMessage ==
  \E conversationId \in ConversationIdInputs :
    /\ CallsMade < MaxCalls
    /\ creates' = Append(creates, NewWriteBack("sendMessage", conversationId))
    /\ UNCHANGED <<store, notConversations>>

\* db.get('conversations', conversationId) resolves.  With a conversation,
\* markAsRead queues its db.put('conversations', ...) and sendMessage goes
\* on to send and to db.put('messages', message); without one, markAsRead
\* returns and sendMessage throws
GetResolves(i) ==
  LET found == { c \in store.conversations : c.id = creates[i].target }
  IN /\ creates[i].pc = "get"
     /\ ReadMayRun(i)
     /\ creates' =
          IF found = {}
          THEN IF creates[i].kind = "sendMessage"
               THEN [ creates EXCEPT ![i].pc = "thrown",
                                     ![i].error = NOT_FOUND_MESSAGE ]
               ELSE [ creates EXCEPT ![i].pc = "returned" ]
          ELSE IF creates[i].kind = "sendMessage"
               THEN [ creates EXCEPT ![i].pc = "putMessage", ![i].snapshot = found ]
               ELSE [ creates EXCEPT ![i].pc = "putBack", ![i].snapshot = found,
                                     ![i].queuedAt = Len(creates) ]
     /\ UNCHANGED <<store, notConversations>>

\* sendMessage: db.put('messages', message) completes and
\* db.put('conversations', {...conversation, lastMessageAt}) is queued
MessageStored(i) ==
  /\ creates[i].pc = "putMessage"
  /\ creates' = [ creates EXCEPT ![i].pc = "putBack", ![i].queuedAt = Len(creates) ]
  /\ UNCHANGED <<store, notConversations>>

\* The db.put('conversations', {...conversation, ...}) of markAsRead or
\* sendMessage completes: the record read earlier is stored under its id
PutBack(i) ==
  /\ creates[i].pc = "putBack"
  /\ store' = [ store EXCEPT !.conversations =
                  { c \in @ : c.id # creates[i].target } \cup creates[i].snapshot ]
  /\ creates' = [ creates EXCEPT ![i].pc = "returned" ]
  /\ UNCHANGED notConversations

\* NashMeshDB.delete(storeName, key) of a stored record completes
DbDelete ==
  /\ CallsMade < MaxCalls
  /\ \/ \E c \in { d \in store.conversations : d.id \in ConversationIdInputs } :
          store' = [ store EXCEPT !.conversations = @ \ { c }, !.deleted = @ + 1 ]
     \/ \E c \in store.contacts :
          store' = [ store EXCEPT !.contacts = @ \ { c }, !.deleted = @ + 1 ]
  /\ UNCHANGED <<creates, notConversations>>

NextConversations ==
  \/ DbDelete
  \/ CallCreateDM
  \/ CallCreateGroup
  \/ \E i \in 1..Len(creates) : CreateFindsChannel(i)
  \/ \E i \in 1..Len(creates) : CreateThrows(i)
  \/ \E i \in 1..Len(creates) : PutConversation(i)
  \/ \E i \in 1..Len(creates) : PutContact(i)
  \/ CallMarkAsRead
  \/ CallSendMessage
  \/ \E i \in 1..Len(creates) : GetResolves(i)
  \/ \E i \in 1..Len(creates) : MessageStored(i)
  \/ \E i \in 1..Len(creates) : PutBack(i)

SpecConversations == InitConversations /\ [][NextConversations]_vars

\* C22: channel slots stay unique under concurrency: whatever the
\* interleaving of createDM and createGroup calls, no two stored
\* conversations have the same channelIndex and at most 7 are stored.
C22_UniqueChannelSlots ==
  /\ \A c, d \in store.conversations : c # d => c.channelIndex # d.channelIndex
  /\ Cardinality(store.conversations) <= 7

\* The failing case of C22: two calls read the store before either wrote,
\* and both stored a conversation on the same channel
C22_SameSlotTwice ==
  \E c, d \in store.conversations : c.id < d.id /\ c.channelIndex = d.channelIndex

\* The calls that have stored their conversation
Stored(i) ==
  /\ creates[i].kind \in { "dm", "group" }
  /\ creates[i].pc \in { "putContact", "returned" }

\* C23: a createDM or createGroup that ran from its read to its write with
\* no other write to the store in between gave its conversation the smallest
\* channel index of 1..7 that no stored conversation used; no stored
\* conversation ever has index 0 or an index above 7.
C23_SmallestFreeSlot ==
  /\ \A c \in store.conversations : c.channelIndex \in 1..7
  /\ \A i \in 1..Len(creates) :
       (Stored(i) /\ creates[i].seen = creates[i].before) =>
         LET free == (1..7) \ usedChannels(creates[i].before)
         IN /\ creates[i].channel \in free
            /\ \A k \in free : creates[i].channel <= k

\* C23 witness: the second call of a run started with three stored
\* conversations has returned undisturbed, after the first call had stored
\* its own.
C23_Witness ==
  /\ Len(creates) = 2
  /\ creates[1].pc = "returned"
  /\ creates[2].pc = "returned"
  /\ creates[2].seen = creates[2].before
  /\ Cardinality(creates[2].before) = 4
  /\ creates[2].channel = 5

\* C24: a createDM or createGroup whose read found all of the channel
\* indices 1..7 in use has thrown 'Maximum conversations reached (7)' and
\* has written nothing: no stored conversation and no stored contact comes
\* from it; and the error is thrown in no other case.
C24_FullStoreThrows ==
  \A i \in 1..Len(creates) :
    /\ (creates[i].pc # "getAll" /\ (1..7) \subseteq usedChannels(creates[i].seen)) =>
         /\ creates[i].pc = "thrown"
         /\ creates[i].error = MAX_CONVERSATIONS_MESSAGE
         /\ \A c \in store.conversations : c.id # i
         /\ \A c \in store.contacts : c.by # i
    /\ creates[i].error = MAX_CONVERSATIONS_MESSAGE =>
         (1..7) \subseteq usedChannels(creates[i].seen)

\* C24 witness: with seven conversations stored a createDM has thrown, and
\* the store still holds the seven conversations and no contact.
C24_Witness ==
  /\ Len(creates) >= 1
  /\ creates[1].kind = "dm"
  /\ creates[1].pc = "thrown"
  /\ store.conversations = StoredBy(7)
  /\ store.contacts = {}

\* The encodings of the fields numbered num in the message bytes b
FieldBytes(b, num) ==
  { RefField(Fields(b)[i]) : i \in { j \in 1..Len(Fields(b)) : Fields(b)[j].num = num } }

\* A property that is a boolean or an index is present exactly when it is
\* set, with value 0 for false / 0
PresentWhenDefined(b, num, o, zero) ==
  /\ IsDefined(o) = (FieldBytes(b, num) # {})
  /\ (IsDefined(o) /\ Val(o) = zero) => FieldBytes(b, num) = { <<num * 8, 0>> }

\* C25: presence is decided by 'defined', not by 'non-zero', for booleans
\* and the channel index.  uplinkEnabled / downlinkEnabled false are
\* encoded as 0x28 0x00 / 0x30 0x00, txEnabled false as 0x58 0x00 and
\* index 0 as 0x08 0x00; these fields are left out only when the value is
\* undefined.  An empty name is left out, and a given psk is always
\* encoded, the empty one as 0x12 0x00.
C25_PresenceByDefined ==
  /\ (probe.done /\ probe.fn = "buildChannelSettings") =>
       /\ ParseMessage(probe.out).ok
       /\ PresentWhenDefined(probe.out, 5, probe.arg.uplinkEnabled, FALSE)
       /\ PresentWhenDefined(probe.out, 6, probe.arg.downlinkEnabled, FALSE)
       /\ probe.arg.uplinkEnabled = Some(FALSE) => FieldBytes(probe.out, 5) = { <<40, 0>> }
       /\ probe.arg.downlinkEnabled = Some(FALSE) => FieldBytes(probe.out, 6) = { <<48, 0>> }
       /\ probe.arg.name = Some(<<>>) => FieldBytes(probe.out, 3) = {}
       /\ IsDefined(probe.arg.psk) =>
            FieldBytes(probe.out, 2) = { RefField(BytesField(2, Val(probe.arg.psk))) }
       /\ probe.arg.psk = Some(<<>>) => FieldBytes(probe.out, 2) = { <<18, 0>> }
  /\ (probe.done /\ probe.fn = "buildLoRaConfig") =>
       /\ ParseMessage(probe.out).ok
       /\ PresentWhenDefined(probe.out, 11, probe.arg.txEnabled, FALSE)
       /\ probe.arg.txEnabled = Some(FALSE) => FieldBytes(probe.out, 11) = { <<88, 0>> }
  /\ (probe.done /\ probe.fn = "buildChannel") =>
       /\ ParseMessage(probe.out).ok
       /\ PresentWhenDefined(probe.out, 1, probe.arg.index, Nm(0))
       /\ probe.arg.index = Some(Nm(0)) => FieldBytes(probe.out, 1) = { <<8, 0>> }

\* C25 witness: buildChannelSettings has returned for an empty psk, an
\* empty name and both flags false: the bytes 12 00 28 00 30 00.
C25_Witness ==
  /\ probe.done
  /\ probe.fn = "buildChannelSettings"
  /\ probe.arg = [ channelNum |-> Undefined, psk |-> Some(<<>>), name |-> Some(<<>>),
                   uplinkEnabled |-> Some(FALSE), downlinkEnabled |-> Some(FALSE) ]
  /\ probe.out = <<18, 0, 40, 0, 48, 0>>

(***************************************************************************)
(* The service worker (src/sw.js): activation and the fetch handler.  A    *)
(* URL is the sequence of its characters; requests name their URL by a     *)
(* label of UrlTable.                                                      *)
(***************************************************************************)
MaxFetches == 2      \* most fetch events in a run

CACHE_NAME == "nodeville-v1.0.0"
RUNTIME_CACHE == "nodeville-runtime-v1.0.0"

\* Caches of an earlier version of the site and of another application of
\* the same origin
OLD_CACHE == "nodeville-v0.9.0"
FOREIGN_CACHE == "other-app-v1"

\* location.origin of the deployed site
LOCATION_ORIGIN == << "h", "t", "t", "p", "s", ":", "/", "/", "n", "o", "d", "e", "v", "i", "l", "l", "e", ".", "e", "x", "a", "m", "p", "l", "e" >>

\* allowedOrigins
ALLOWED_ORIGINS ==
  << LOCATION_ORIGIN,
     << "h", "t", "t", "p", "s", ":", "/", "/", "c", "d", "n", ".", "j", "s", "d", "e", "l", "i", "v", "r", ".", "n", "e", "t" >>,
     << "h", "t", "t", "p", "s", ":", "/", "/", "f", "o", "n", "t", "s", ".", "g", "o", "o", "g", "l", "e", "a", "p", "i", "s", ".", "c", "o", "m" >>,
     << "h", "t", "t", "p", "s", ":", "/", "/", "f", "o", "n", "t", "s", ".", "g", "s", "t", "a", "t", "i", "c", ".", "c", "o", "m" >> >>

BLOB_PROTOCOL == << "b", "l", "o", "b", ":" >>
DATA_PROTOCOL == << "d", "a", "t", "a", ":" >>

\* request.url of the requests of the model
UrlTable ==
  [ setup |-> LOCATION_ORIGIN \o << "/", "s", "e", "t", "u", "p", "/" >>,
    about |-> LOCATION_ORIGIN \o << "/", "a", "b", "o", "u", "t", "/" >>,
    index |-> LOCATION_ORIGIN \o << "/", "i", "n", "d", "e", "x", ".", "h", "t", "m", "l" >>,
    css |-> LOCATION_ORIGIN \o << "/", "c", "s", "s", "/", "s", "t", "y", "l", "e", ".", "c", "s", "s" >>,
    cdn |-> << "h", "t", "t", "p", "s", ":", "/", "/", "c", "d", "n", ".", "j", "s", "d", "e", "l", "i", "v", "r", ".", "n", "e", "t", "/", "q", ".", "j", "s" >>,
    font |-> << "h", "t", "t", "p", "s", ":", "/", "/", "f", "o", "n", "t", "s", ".", "g", "s", "t", "a", "t", "i", "c", ".", "c", "o", "m", "/", "f", ".", "w", "o", "f", "f", "2" >>,
    lookalike |-> << "h", "t", "t", "p", "s", ":", "/", "/", "c", "d", "n", ".", "j", "s", "d", "e", "l", "i", "v", "r", ".", "n", "e", "t", ".", "e", "v", "i", "l", ".", "e", "x", "a", "m", "p", "l", "e", "/", "q", ".", "j", "s" >>,
    other |-> << "h", "t", "t", "p", "s", ":", "/", "/", "e", "x", "a", "m", "p", "l", "e", ".", "o", "r", "g", "/", "x", ".", "j", "s" >>,
    blob |-> BLOB_PROTOCOL \o LOCATION_ORIGIN \o << "/", "1" >>,
    data |-> DATA_PROTOCOL \o << ",", "x" >> ]

Href(url) == UrlTable[url]

\* The members of CORE_ASSETS among the URLs of the model
CoreUrls == { "setup", "index", "css" }

\* The pages requested with mode 'navigate': one of CORE_ASSETS and one that
\* is not
PageUrls == { "about", "index" }

\* The URLs requested by the pages (mode 'cors')
ResourceUrls == { "css", "cdn", "font", "lookalike", "other", "blob", "data" }

RequestInputs ==
  { [ url |-> u, method |-> "GET", mode |-> "navigate" ] : u \in PageUrls }
  \cup { [ url |-> u, method |-> "GET", mode |-> "cors" ] : u \in ResourceUrls }
  \cup { [ url |-> "index", method |-> "POST", mode |-> "navigate" ],
          [ url |-> "css", method |-> "POST", mode |-> "cors" ] }

\* response.status of a network response
StatusInputs == { 200, 404 }

\* String.prototype.startsWith
startsWith(str, prefix) ==
  /\ Len(prefix) <= Len(str)
  /\ SubSeq(str, 1, Len(prefix)) = prefix

\* new URL(href).protocol: the scheme with its colon
Protocol(href) ==
  SubSeq(href, 1, CHOOSE i \in 1..Len(href) :
                    href[i] = ":" /\ \A j \in 1..(i - 1) : href[j] # ":")

\* new URL(href).origin of an https URL: scheme, "//" and host
UrlOrigin(href) ==
  SubSeq(href, 1, (CHOOSE i \in 9..Len(href) :
                     href[i] = "/" /\ \A j \in 9..(i - 1) : href[j] # "/") - 1)

\* allowedOrigins.some(origin => url.href.startsWith(origin))
isAllowedOrigin(href) ==
  \E k \in 1..Len(ALLOWED_ORIGINS) : startsWith(href, ALLOWED_ORIGINS[k])

\* The three early returns of the fetch handler are not taken
Handled(req) ==
  /\ req.method = "GET"
  /\ Protocol(Href(req.url)) \notin { BLOB_PROTOCOL, DATA_PROTOCOL }
  /\ isAllowedOrigin(Href(req.url))

\* Mutant: every handled request answered cache-first
FirstStep_cacheFirst(req) == "cfMatch"

\* request.mode === 'navigate': network first; otherwise cache first
FirstStep(req) == IF req.mode = "navigate" THEN "navFetch" ELSE "cfMatch"

\* Mutant: only CACHE_NAME kept
staleCaches_keepOne(cacheNames) == { name \in cacheNames : name # CACHE_NAME }

\* cacheNames.filter(name => name !== CACHE_NAME && name !== RUNTIME_CACHE)
staleCaches(cacheNames) ==
  { name \in cacheNames : name # CACHE_NAME /\ name # RUNTIME_CACHE }

\* The install step is over: CACHE_NAME exists, with CORE_ASSETS in it or,
\* when cache.addAll failed, empty; caches of earlier runs may exist
InitWorker ==
  /\ IdleExcept("worker")
  /\ events = <<>>
  /\ sw \in { [ names |-> { CACHE_NAME } \cup extra,
                entries |-> { [ cache |-> CACHE_NAME, url |-> u ] : u \in core }
                            \cup { [ cache |-> n, url |-> "css" ] : n \in extra },
                pending |-> {}, written |-> {}, atActivate |-> {}, toDelete |-> {},
                pc |-> "installed", claimed |-> FALSE ] :
              extra \in SUBSET { RUNTIME_CACHE, OLD_CACHE, FOREIGN_CACHE },
              core \in { {}, CoreUrls } }

\* activate: caches.keys() resolves, caches.delete is called for each
\* filtered name
ActivateStart ==
  /\ sw.pc = "installed"
  /\ sw' = [ sw EXCEPT !.pc = "deleting", !.atActivate = sw.names,
                       !.toDelete = staleCaches(sw.names) ]
  /\ UNCHANGED <<events, notWorker>>

\* one caches.delete(name) completes
DeleteCache ==
  \E name \in sw.toDelete :
    /\ sw.pc = "deleting"
    /\ sw' = [ sw EXCEPT !.names = @ \ { name },
                         !.entries = { e \in @ : e.cache # name },
                         !.toDelete = @ \ { name } ]
    /\ UNCHANGED <<events, notWorker>>

\* Promise.all resolves: self.clients.claim()
ClaimClients ==
  /\ sw.pc = "deleting"
  /\ sw.toDelete = {}
  /\ sw' = [ sw EXCEPT !.pc = "activated", !.claimed = TRUE ]
  /\ UNCHANGED <<events, notWorker>>

\* A fetch event is dispatched, whatever earlier events are still waiting
\* for the network or the caches: the handler returns without respondWith,
\* or calls respondWith and starts fetch(request) or caches.match(request)
OnFetch ==
  \E req \in RequestInputs :
    /\ sw.pc = "activated"
    /\ Len(events) < MaxFetches
    /\ events' = Append(events,
                   IF ~Handled(req)
                   THEN [ NoEvent EXCEPT !.req = req, !.pc = "ignored" ]
                   ELSE [ NoEvent EXCEPT !.req = req, !.pc = FirstStep(req),
                            !.trace = IF FirstStep(req) = "navFetch"
                                      THEN <<"network">> ELSE <<"match">> ])
    /\ UNCHANGED <<sw, notWorker>>

\* The put that follows a response with status 200 to the request of event
\* i: caches.open(name).then(cache => cache.put(request, responseToCache)),
\* not awaited; each fetch event starts its own
QueuedPut(i, cacheName, status) ==
  IF status = 200
  THEN { [ event |-> i, cache |-> cacheName, url |-> events[i].req.url,
           method |-> events[i].req.method, mode |-> events[i].req.mode,
           status |-> status, opened |-> FALSE ] }
  ELSE {}

\* navigation: fetch(request) resolves
NavNetworkResponds ==
  \E i \in 1..Len(events), status \in StatusInputs :
    /\ events[i].pc = "navFetch"
    /\ events' = [ events EXCEPT ![i].pc = "responded", ![i].net = "ok",
                                 ![i].status = status, ![i].response = "network" ]
    /\ sw' = [ sw EXCEPT !.pending = @ \cup QueuedPut(i, CACHE_NAME, status) ]
    /\ UNCHANGED notWorker

\* navigation: fetch(request) rejects, caches.match(request) is called
NavNetworkFails ==
  \E i \in 1..Len(events) :
    /\ events[i].pc = "navFetch"
    /\ events' = [ events EXCEPT ![i].pc = "navMatch", ![i].net = "failed",
                                 ![i].trace = Append(@, "match") ]
    /\ UNCHANGED <<sw, notWorker>>

\* The URLs caches.match finds an entry for
CachedUrls == { e.url : e \in sw.entries }

\* navigation: caches.match(request) resolves; without a match,
\* caches.match('/index.html') is called
NavMatch ==
  \E i \in 1..Len(events) :
    /\ events[i].pc = "navMatch"
    /\ events' = IF events[i].req.url \in CachedUrls
                 THEN [ events EXCEPT ![i].pc = "responded",
                                      ![i].cachedThen = CachedUrls,
                                      ![i].response = "cached",
                                      ![i].key = events[i].req.url ]
                 ELSE [ events EXCEPT ![i].pc = "navMatchIndex",
                                      ![i].cachedThen = CachedUrls,
                                      ![i].trace = Append(@, "matchIndex") ]
    /\ UNCHANGED <<sw, notWorker>>

\* navigation: caches.match('/index.html') resolves and is the answer
NavMatchIndex ==
  \E i \in 1..Len(events) :
    /\ events[i].pc = "navMatchIndex"
    /\ events' = [ events EXCEPT ![i].pc = "responded",
                                 ![i].indexThen = "index" \in CachedUrls,
                                 ![i].response = IF "index" \in CachedUrls
                                                 THEN "cached" ELSE "undefined",
                                 ![i].key = IF "index" \in CachedUrls
                                            THEN "index" ELSE "none" ]
    /\ UNCHANGED <<sw, notWorker>>

\* other requests: caches.match(request) resolves with a response
CacheFirstHit ==
  \E i \in 1..Len(events) :
    /\ events[i].pc = "cfMatch"
    /\ events[i].req.url \in CachedUrls
    /\ events' = [ events EXCEPT ![i].pc = "responded",
                                 ![i].cachedThen = CachedUrls,
                                 ![i].response = "cached",
                                 ![i].key = events[i].req.url ]
    /\ UNCHANGED <<sw, notWorker>>

\* other requests: caches.match(request) resolves with undefined,
\* fetch(request) is called
CacheFirstMiss ==
  \E i \in 1..Len(events) :
    /\ events[i].pc = "cfMatch"
    /\ events[i].req.url \notin CachedUrls
    /\ events' = [ events EXCEPT ![i].pc = "cfFetch",
                                 ![i].cachedThen = CachedUrls,
                                 ![i].trace = Append(@, "network") ]
    /\ UNCHANGED <<sw, notWorker>>

\* other requests: fetch(request) resolves
CacheFirstNetworkResponds ==
  \E i \in 1..Len(events), status \in StatusInputs :
    /\ events[i].pc = "cfFetch"
    /\ events' = [ events EXCEPT ![i].pc = "responded", ![i].net = "ok",
                                 ![i].status = status, ![i].response = "network" ]
    /\ sw' = [ sw EXCEPT !.pending = @ \cup QueuedPut(i, RUNTIME_CACHE, status) ]
    /\ UNCHANGED notWorker

\* other requests: fetch(request) rejects, the error is thrown again
CacheFirstNetworkFails ==
  \E i \in 1..Len(events) :
    /\ events[i].pc = "cfFetch"
    /\ events' = [ events EXCEPT ![i].pc = "rejected", ![i].net = "failed" ]
    /\ UNCHANGED <<sw, notWorker>>

\* caches.open(name) resolves (the cache is created when it is missing) and
\* cache.put(request, responseToCache) is called
CacheOpen ==
  \E p \in sw.pending :
    /\ ~p.opened
    /\ sw' = [ sw EXCEPT !.names = @ \cup { p.cache },
                         !.pending = (@ \ { p }) \cup { [ p EXCEPT !.opened = TRUE ] } ]
    /\ UNCHANGED <<events, notWorker>>

\* cache.put completes
CachePut ==
  \E p \in sw.pending :
    /\ p.opened
    /\ sw' = [ sw EXCEPT !.entries = @ \cup { [ cache |-> p.cache, url |-> p.url ] },
                         !.pending = @ \ { p },
                         !.written = @ \cup { p } ]
    /\ UNCHANGED <<events, notWorker>>

NextWorker ==
  \/ ActivateStart
  \/ DeleteCache
  \/ ClaimClients
  \/ OnFetch
  \/ NavNetworkResponds
  \/ NavNetworkFails
  \/ NavMatch
  \/ NavMatchIndex
  \/ CacheFirstHit
  \/ CacheFirstMiss
  \/ CacheFirstNetworkResponds
  \/ CacheFirstNetworkFails
  \/ CacheOpen
  \/ CachePut

SpecWorker == InitWorker /\ [][NextWorker]_vars

\* The requests the handler is meant to answer: GET, not blob: or data:,
\* and the origin of the URL is one of the allowed origins
Eligible(req) ==
  /\ req.method = "GET"
  /\ Protocol(Href(req.url)) \notin { BLOB_PROTOCOL, DATA_PROTOCOL }
  /\ \E k \in 1..Len(ALLOWED_ORIGINS) : UrlOrigin(Href(req.url)) = ALLOWED_ORIGINS[k]

\* C26: a response is written into a cache (or queued to be written) only
\* for a GET request to an allowed origin with a URL that is neither blob:
\* nor data: and a network response of status 200, navigation responses
\* into CACHE_NAME and all others into RUNTIME_CACHE; for every other
\* request the fetch handler neither responds nor caches.
C26_CachesOnlyEligible ==
  /\ \A p \in sw.written \cup sw.pending :
       /\ Eligible(p)
       /\ p.status = 200
       /\ p.cache = IF p.mode = "navigate" THEN CACHE_NAME ELSE RUNTIME_CACHE
  /\ \A i \in 1..Len(events) :
       ~Eligible(events[i].req) => events[i].pc = "ignored"

\* The failing case of C26: a response from an origin that only begins like
\* an allowed origin has been written into RUNTIME_CACHE
C26_LookalikeCached ==
  \E p \in sw.written :
    /\ p.url = "lookalike"
    /\ \A k \in 1..Len(ALLOWED_ORIGINS) : UrlOrigin(Href(p.url)) # ALLOWED_ORIGINS[k]
    /\ [ cache |-> RUNTIME_CACHE, url |-> p.url ] \in sw.entries

\* A navigation event e tried the network first, consulted the cache only
\* after the network fetch failed, and answered with the cached entry of
\* its request when caches.match(request) found one
NavigationOrdered(e) ==
  /\ e.trace[1] = "network"
  /\ Len(e.trace) > 1 => e.net = "failed"
  /\ e.net = "ok" => e.pc = "responded" /\ e.response = "network"
  /\ (e.net = "failed" /\ e.pc = "responded") =>
       /\ e.response # "network"
       /\ e.req.url \in e.cachedThen =>
            /\ e.response = "cached"
            /\ e.key = e.req.url
            /\ e.trace = <<"network", "match">>
       /\ e.req.url \notin e.cachedThen =>
            e.trace = <<"network", "match", "matchIndex">>
  /\ e.pc = "navMatchIndex" =>
       /\ e.net = "failed"
       /\ e.req.url \notin e.cachedThen

\* A failed navigation e whose request had no cached entry was answered
\* with the cached '/index.html'
FallbackIsCachedIndex(e) ==
  (e.net = "failed" /\ e.pc = "responded" /\ e.req.url \notin e.cachedThen) =>
    /\ e.response = "cached"
    /\ e.key = "index"

\* A failed navigation e whose request had no cached entry was answered
\* with what caches.match('/index.html') resolved with: the cached
\* '/index.html', or undefined when no cache held it
FallbackIsIndexLookup(e) ==
  (e.net = "failed" /\ e.pc = "responded" /\ e.req.url \notin e.cachedThen) =>
    IF e.indexThen
    THEN e.response = "cached" /\ e.key = "index"
    ELSE e.response = "undefined" /\ e.key = "none"

\* A handled event e that is not a navigation consulted the cache first,
\* contacted the network only on a miss, and rejected when the network
\* failed
CacheFirstOrdered(e) ==
  /\ e.trace[1] = "match"
  /\ Len(e.trace) > 1 =>
       /\ e.trace = <<"match", "network">>
       /\ e.req.url \notin e.cachedThen
  /\ (e.pc = "responded" /\ e.req.url \in e.cachedThen) =>
       /\ e.response = "cached"
       /\ e.key = e.req.url
       /\ e.net = "none"
  /\ e.net = "ok" => e.pc = "responded" /\ e.response = "network"
  /\ e.net = "failed" <=> e.pc = "rejected"

\* C27: every navigation event starts with the network and consults the
\* cache only after the network fetch failed, answering with the cached
\* entry of the request when there is one and otherwise with the result of
\* caches.match('/index.html'), which is the cached '/index.html' or, when
\* no cache holds it, undefined; every other handled event starts with the
\* cache, contacts the network only on a miss, and a network failure is
\* rethrown.
C27_StrategyOrdering ==
  \A i \in 1..Len(events) :
    events[i].pc # "ignored" =>
      IF events[i].req.mode = "navigate"
      THEN NavigationOrdered(events[i]) /\ FallbackIsIndexLookup(events[i])
      ELSE CacheFirstOrdered(events[i])

\* C27 as the claim words it: the answer to a failed navigation without a
\* cached entry is always the cached '/index.html'
C27_AnswersCachedIndex ==
  \A i \in 1..Len(events) :
    events[i].pc # "ignored" =>
      IF events[i].req.mode = "navigate"
      THEN NavigationOrdered(events[i]) /\ FallbackIsCachedIndex(events[i])
      ELSE CacheFirstOrdered(events[i])

\* Two navigations overlap and both fail: the first finds no entry for its
\* request and is answered with the cached '/index.html' while the second
\* still waits for caches.match(request)
C27_Witness ==
  /\ Len(events) = 2
  /\ events[1].req = [ url |-> "about", method |-> "GET", mode |-> "navigate" ]
  /\ events[1].trace = <<"network", "match", "matchIndex">>
  /\ events[1].response = "cached"
  /\ events[1].key = "index"
  /\ events[2].pc = "navMatch"

\* C28: once activation is complete every cache that existed with a name
\* other than CACHE_NAME and RUNTIME_CACHE is gone, activation never
\* deletes those two, and clients.claim() is called only when every
\* deletion has finished.
C28_ActivateCleansOldCaches ==
  /\ sw.pc = "activated" =>
       \A name \in sw.atActivate :
         name \notin { CACHE_NAME, RUNTIME_CACHE } => name \notin sw.names
  /\ sw.pc \in { "deleting", "activated" } =>
       \A name \in sw.atActivate \cap { CACHE_NAME, RUNTIME_CACHE } :
         /\ name \in sw.names
         /\ name \notin sw.toDelete
  /\ sw.claimed =>
       /\ sw.toDelete = {}
       /\ sw.names \subseteq { CACHE_NAME, RUNTIME_CACHE }

C28_Witness ==
  /\ sw.claimed
  /\ sw.atActivate = { CACHE_NAME, RUNTIME_CACHE, OLD_CACHE, FOREIGN_CACHE }
  /\ sw.names = { CACHE_NAME, RUNTIME_CACHE }
  /\ [ cache |-> RUNTIME_CACHE, url |-> "css" ] \in sw.entries

(***************************************************************************)
(* NashMeshApp (src/unnamed/part_001): first-run flow from onboarding to   *)
(* the messenger.  Each connection attempt keeps the order of the steps    *)
(* it completed.                                                           *)
(***************************************************************************)
MaxAttempts == 2     \* most calls of startConnection in a run
MaxClicks == 2       \* most clicks on the buttons of the user setup screen

LowerOf == [ A |-> "a", B |-> "b", C |-> "c", D |-> "d", E |-> "e", F |-> "f", G |-> "g", H |-> "h", I |-> "i", J |-> "j", K |-> "k", L |-> "l", M |-> "m", N |-> "n", O |-> "o", P |-> "p", Q |-> "q", R |-> "r", S |-> "s", T |-> "t", U |-> "u", V |-> "v", W |-> "w", X |-> "x", Y |-> "y", Z |-> "z" ]

\* String.prototype.toLowerCase
toLowerCase(str) ==
  [ i \in 1..Len(str) |-> IF str[i] \in DOMAIN LowerOf THEN LowerOf[str[i]] ELSE str[i] ]

\* String.prototype.includes
includes(str, sub) ==
  \E i \in 1..(Len(str) - Len(sub) + 1) : SubSeq(str, i, i + Len(sub) - 1) = sub

\* MeshtasticManager.classifyError, on error.message
classifyError(errorMessage) ==
  LET message == toLowerCase(errorMessage) IN
  IF \/ includes(message, << "g", "l", "o", "b", "a", "l", "l", "y", " ", "d", "i", "s", "a", "b", "l", "e", "d" >>)
     \/ includes(message, << "b", "l", "u", "e", "t", "o", "o", "t", "h", " ", "a", "p", "i" >>)
     \/ includes(message, << "p", "e", "r", "m", "i", "s", "s", "i", "o", "n", " ", "d", "e", "n", "i", "e", "d" >>)
     \/ includes(message, << "n", "o", "t", " ", "a", "l", "l", "o", "w", "e", "d" >>)
  THEN "bluetooth_disabled"
  ELSE IF \/ includes(message, << "u", "s", "e", "r", " ", "c", "a", "n", "c", "e", "l", "l", "e", "d" >>)
          \/ includes(message, << "u", "s", "e", "r", " ", "c", "a", "n", "c", "e", "l", "e", "d" >>)
          \/ includes(message, << "u", "s", "e", "r", " ", "d", "e", "n", "i", "e", "d" >>)
  THEN "user_cancelled"
  ELSE IF \/ includes(message, << "n", "o", " ", "d", "e", "v", "i", "c", "e" >>)
          \/ includes(message, << "d", "e", "v", "i", "c", "e", " ", "n", "o", "t", " ", "f", "o", "u", "n", "d" >>)
  THEN "no_device"
  ELSE IF \/ includes(message, << "d", "i", "s", "c", "o", "n", "n", "e", "c", "t", "e", "d" >>)
          \/ includes(message, << "c", "o", "n", "n", "e", "c", "t", "i", "o", "n", " ", "f", "a", "i", "l", "e", "d" >>)
          \/ includes(message, << "g", "a", "t", "t" >>)
  THEN "connection_lost"
  ELSE "device"

\* Messages of the errors a Bluetooth connection attempt raises
ErrorMessageInputs ==
  { << "U", "s", "e", "r", " ", "c", "a", "n", "c", "e", "l", "l", "e", "d", " ", "t", "h", "e", " ", "r", "e", "q", "u", "e", "s", "t", "D", "e", "v", "i", "c", "e", "(", ")", " ", "c", "h", "o", "o", "s", "e", "r", "." >>,
    << "G", "A", "T", "T", " ", "S", "e", "r", "v", "e", "r", " ", "i", "s", " ", "d", "i", "s", "c", "o", "n", "n", "e", "c", "t", "e", "d", "." >>,
    << "W", "e", "b", " ", "B", "l", "u", "e", "t", "o", "o", "t", "h", " ", "A", "P", "I", " ", "g", "l", "o", "b", "a", "l", "l", "y", " ", "d", "i", "s", "a", "b", "l", "e", "d", "." >>,
    << "N", "o", " ", "d", "e", "v", "i", "c", "e", " ", "s", "e", "l", "e", "c", "t", "e", "d" >>,
    << "B", "l", "u", "e", "t", "o", "o", "t", "h", " ", "a", "d", "a", "p", "t", "e", "r", " ", "n", "o", "t", " ", "a", "v", "a", "i", "l", "a", "b", "l", "e", "." >> }

NASHME_PREFIX == << "n", "a", "s", "h", "m", "e", ".", "s", "h", "-" >>

\* `nashme-${Date.now().toString(36)}` at one instant
GeneratedName == << "n", "a", "s", "h", "m", "e", "-", "m", "2", "x", "7", "k", "9", "q", "a" >>

\* localStorage nashme_longName when the page opens
StoredNameInputs == { <<>>, << "n", "a", "s", "h", "m", "e", ".", "s", "h", "-", "2", "f" >>, << "A", "d", "a" >> }

\* The long name typed on the user setup screen
NameInputs == { <<>>, << "G", "r", "a", "c", "e" >> }

\* The short name of a skipped user setup
DEFAULT_SHORT_NAME == << "N", "A", "S", "H" >>

\* Mutant: the owner name is taken as set whatever the node reports
hasName_always(longName) == TRUE

\* myNodeInfo?.user?.longName && !longName.startsWith('nashme.sh-')
hasName(longName) == longName # <<>> /\ ~startsWith(longName, NASHME_PREFIX)

NewAttempt ==
  [ pc |-> "connect", order |-> <<>>, failed |-> FALSE, thrown |-> Undefined,
    shown |-> "", seenName |-> <<>> ]

\* The page opens: settings and localStorage as earlier sessions left them
InitApp ==
  /\ IdleExcept("app")
  /\ app \in { [ NoApp EXCEPT !.pc = "init", !.bluetooth = b, !.longName = l,
                   !.configuredBefore = c, !.configured = c, !.configuredAt = c ] :
               b \in BOOLEAN, l \in StoredNameInputs, c \in BOOLEAN }

\* init(): the messenger when 'configured' is stored with a true value,
\* otherwise the onboarding screen
AppInit ==
  /\ app.pc = "init"
  /\ app' = [ app EXCEPT !.pc = "running",
                         !.screen = IF app.configured THEN "messenger" ELSE "onboarding" ]
  /\ UNCHANGED notApp

\* startConnection() up to its first await
Started == [ app EXCEPT !.screen = "connecting", !.log = Append(@, NewAttempt) ]

\* click on the connect button of the onboarding screen
ClickConnect ==
  /\ app.screen = "onboarding"
  /\ Len(app.log) < MaxAttempts
  /\ app' = Started
  /\ UNCHANGED notApp

\* click on the retry button of the error screen
ClickRetry ==
  /\ app.screen = "error"
  /\ Len(app.log) < MaxAttempts
  /\ app' = Started
  /\ UNCHANGED notApp

Cur == Len(app.log)

AttemptAt(pc) == Cur > 0 /\ app.log[Cur].pc = pc

\* catch (error): ui.showError(error.message, error.type || 'device', retry)
Caught(type) ==
  LET shown == IF IsDefined(type) THEN Val(type) ELSE "device" IN
  [ app EXCEPT !.screen = "error", !.errorType = shown,
               !.log[Cur] = [ @ EXCEPT !.pc = "caught", !.failed = TRUE,
                                       !.thrown = type, !.shown = shown ] ]

\* connect(): navigator.bluetooth is missing
ConnectUnsupported ==
  /\ AttemptAt("connect")
  /\ ~app.bluetooth
  /\ app' = Caught(Some("browser_unsupported"))
  /\ UNCHANGED notApp

\* connect(): the connection raises an error, which connect classifies
ConnectFails ==
  \E message \in ErrorMessageInputs :
    /\ AttemptAt("connect")
    /\ app.bluetooth
    /\ app' = Caught(Some(classifyError(message)))
    /\ UNCHANGED notApp

\* connect() returns: requestConfig has read the node's names
ConnectSucceeds ==
  /\ AttemptAt("connect")
  /\ app.bluetooth
  /\ app' = [ app EXCEPT !.nodeName = app.longName,
                         !.log[Cur] = [ @ EXCEPT !.pc = "applyConfig",
                                                 !.order = Append(@, "connect") ] ]
  /\ UNCHANGED notApp

\* applyConfig() raises an error (one without a type)
ApplyConfigFails ==
  /\ AttemptAt("applyConfig")
  /\ app' = Caught(Undefined)
  /\ UNCHANGED notApp

\* applyConfig() returns
ApplyConfigSucceeds ==
  /\ AttemptAt("applyConfig")
  /\ app' = [ app EXCEPT !.log[Cur] = [ @ EXCEPT !.pc = "sleep",
                                                 !.order = Append(@, "applyConfig") ] ]
  /\ UNCHANGED notApp

\* after the pause: showUserSetup() or showSuccess()
CheckName ==
  /\ AttemptAt("sleep")
  /\ app' = IF hasName(app.nodeName)
            THEN [ app EXCEPT !.log[Cur] = [ @ EXCEPT !.pc = "done",
                                                      !.seenName = app.nodeName ],
                     !.tasks = Append(@, [ attempt |-> Cur, pc |-> "putConfigured",
                                           name |-> <<>>, shortName |-> <<>> ]) ]
            ELSE [ app EXCEPT !.log[Cur] = [ @ EXCEPT !.pc = "done",
                                                      !.seenName = app.nodeName ],
                     !.screen = "user-setup" ]
  /\ UNCHANGED notApp

\* String.prototype.slice(0, 4)
FirstFour(str) == SubSeq(str, 1, IF Len(str) < 4 THEN Len(str) ELSE 4)

\* setOwner(longName, shortName): its body has no await, so it has run
\* when the call returns its promise
setOwner(a, longName, shortName) ==
  [ a EXCEPT !.longName = longName, !.shortName = shortName, !.nodeName = longName ]

\* click on save with an empty short name: onSave(longName, '') runs
\* setOwner and waits for its promise
ClickSave ==
  \E longName \in NameInputs :
    LET finalLongName == IF longName = <<>> THEN GeneratedName ELSE longName IN
    /\ app.screen = "user-setup"
    /\ app.clicks < MaxClicks
    /\ app' = [ setOwner(app, finalLongName, FirstFour(finalLongName)) EXCEPT
                  !.clicks = @ + 1,
                  !.tasks = Append(@, [ attempt |-> Cur, pc |-> "setOwner",
                                        name |-> finalLongName,
                                        shortName |-> FirstFour(finalLongName) ]) ]
    /\ UNCHANGED notApp

\* click on skip: onSkip() runs setOwner and waits for its promise
ClickSkip ==
  /\ app.screen = "user-setup"
  /\ app.clicks < MaxClicks
  /\ app' = [ setOwner(app, GeneratedName, DEFAULT_SHORT_NAME) EXCEPT
                !.clicks = @ + 1,
                !.tasks = Append(@, [ attempt |-> Cur, pc |-> "setOwner",
                                      name |-> GeneratedName,
                                      shortName |-> DEFAULT_SHORT_NAME ]) ]
  /\ UNCHANGED notApp

Did(a, i, step) ==
  [ a EXCEPT !.log[a.tasks[i].attempt].order = Append(@, step) ]

\* `await setOwner(...)` resumes: showSuccess() is called and requests its
\* first db.put
TaskSetOwner ==
  \E i \in 1..Len(app.tasks) :
    /\ app.tasks[i].pc = "setOwner"
    /\ app' = [ Did(app, i, "setOwner") EXCEPT !.tasks[i].pc = "putConfigured" ]
    /\ UNCHANGED notApp

\* showSuccess(): db.put('settings', { key: 'configured', value: true })
TaskPutConfigured ==
  \E i \in 1..Len(app.tasks) :
    /\ app.tasks[i].pc = "putConfigured"
    /\ app' = [ Did(app, i, "putConfigured") EXCEPT !.configured = TRUE,
                  !.tasks[i].pc = "putConfiguredAt" ]
    /\ UNCHANGED notApp

\* showSuccess(): db.put('settings', { key: 'configuredAt', ... })
TaskPutConfiguredAt ==
  \E i \in 1..Len(app.tasks) :
    /\ app.tasks[i].pc = "putConfiguredAt"
    /\ app' = [ app EXCEPT !.configuredAt = TRUE, !.tasks[i].pc = "showSuccess" ]
    /\ UNCHANGED notApp

\* showSuccess(): ui.showSuccess, which starts the 2500 ms timer
TaskShowSuccess ==
  \E i \in 1..Len(app.tasks) :
    /\ app.tasks[i].pc = "showSuccess"
    /\ app' = [ app EXCEPT !.screen = "success", !.tasks[i].pc = "timer" ]
    /\ UNCHANGED notApp

\* the timer fires: showMessenger()
TaskShowMessenger ==
  \E i \in 1..Len(app.tasks) :
    /\ app.tasks[i].pc = "timer"
    /\ app' = [ app EXCEPT !.screen = "messenger", !.tasks[i].pc = "done" ]
    /\ UNCHANGED notApp

NextApp ==
  \/ AppInit
  \/ ClickConnect
  \/ ClickRetry
  \/ ConnectUnsupported
  \/ ConnectFails
  \/ ConnectSucceeds
  \/ ApplyConfigFails
  \/ ApplyConfigSucceeds
  \/ CheckName
  \/ ClickSave
  \/ ClickSkip
  \/ TaskSetOwner
  \/ TaskPutConfigured
  \/ TaskPutConfiguredAt
  \/ TaskShowSuccess
  \/ TaskShowMessenger

SpecApp == InitApp /\ [][NextApp]_vars

StepsOf(a) == { a.order[j] : j \in 1..Len(a.order) }

\* The node reports no owner name, or one of the generated 'nashme.sh-' names
NeedsOwnerName(longName) ==
  \/ longName = <<>>
  \/ /\ Len(longName) >= Len(NASHME_PREFIX)
     /\ \A j \in 1..Len(NASHME_PREFIX) : longName[j] = NASHME_PREFIX[j]

\* C29: 'configured' is written as true only by an attempt whose connect and
\* then applyConfig completed (and whose setOwner completed first when the
\* node had no owner name); a failed attempt shows the error screen with
\* the type of the error ('device' for an error without type) and writes no
\* 'configured'; the messenger is shown only when 'configured' was stored
\* before or an attempt has succeeded.
C29_ConfiguredOnlyAfterSuccess ==
  /\ \A k \in 1..Len(app.log) :
       LET a == app.log[k] IN
       /\ "putConfigured" \in StepsOf(a) =>
            /\ ~a.failed
            /\ Len(a.order) >= 3
            /\ a.order[1] = "connect"
            /\ a.order[2] = "applyConfig"
            /\ NeedsOwnerName(a.seenName) => a.order[3] = "setOwner"
       /\ a.failed =>
            /\ "putConfigured" \notin StepsOf(a)
            /\ a.shown = IF IsDefined(a.thrown) THEN Val(a.thrown) ELSE "device"
            /\ k = Len(app.log) =>
                 /\ app.screen = "error"
                 /\ app.errorType = a.shown
                 /\ ~app.configured
  /\ (app.configured /\ ~app.configuredBefore) =>
       \E k \in 1..Len(app.log) : "putConfigured" \in StepsOf(app.log[k])
  /\ app.screen = "messenger" =>
       \/ app.configuredBefore
       \/ \E k \in 1..Len(app.log) :
            ~app.log[k].failed /\ "putConfigured" \in StepsOf(app.log[k])

\* A first attempt failed in connect, the retry succeeded after the owner
\* name step, and the messenger is shown
C29_Witness ==
  /\ Len(app.log) = 2
  /\ app.log[1].failed
  /\ app.log[1].shown = "user_cancelled"
  /\ app.log[2].order = <<"connect", "applyConfig", "setOwner", "putConfigured">>
  /\ app.configured
  /\ app.screen = "messenger"

(***************************************************************************)
(* The step wizard (src/unnamed/part_000): initWizard and goToStep.  Step  *)
(* contents and progress steps are numbered from 0 as in the NodeLists.    *)
(***************************************************************************)
MaxSteps == 4        \* most step contents of a wizard

Digits == << "1", "2", "3", "4", "5", "6", "7", "8", "9" >>

\* steps[index].id: 'step-1', 'step-2', ... or '' when the steps have no id
StepId(w, index) ==
  IF w.hasIds THEN << "s", "t", "e", "p", "-", Digits[index + 1] >> ELSE <<>>

\* The classes and the position the wizard shows
View(w) ==
  [ currentStep |-> w.currentStep, active |-> w.active,
    progressActive |-> w.progressActive, completed |-> w.completed,
    connectors |-> w.connectors, hash |-> w.hash ]

\* Mutant: goToStep without its range test
goToStep_unchecked(w, stepIndex) ==
  [ w EXCEPT !.active = { index \in 0..(w.n - 1) : index = stepIndex },
             !.progressActive = { index \in 0..(w.n - 1) : index = stepIndex },
             !.completed = { index \in 0..(w.n - 1) : index < stepIndex },
             !.connectors = { index \in 0..(w.n - 2) : index < stepIndex },
             !.currentStep = stepIndex ]

\* goToStep(stepIndex)
goToStep(w, stepIndex) ==
  IF stepIndex < 0 \/ stepIndex >= w.n
  THEN w
  ELSE [ w EXCEPT !.active = { index \in 0..(w.n - 1) : index = stepIndex },
                  !.progressActive = { index \in 0..(w.n - 1) : index = stepIndex },
                  !.completed = { index \in 0..(w.n - 1) : index < stepIndex },
                  !.connectors = { index \in 0..(w.n - 2) : index < stepIndex },
                  !.currentStep = stepIndex,
                  !.hash = IF StepId(w, stepIndex) # <<>>
                           THEN <<"#">> \o StepId(w, stepIndex) ELSE @ ]

\* The event handled last: the index goToStep was or would have been called
\* with, whether it was called, and the view before
EventRecord(w, kind, index, called) ==
  [ kind |-> kind, index |-> index, called |-> called, before |-> View(w) ]

\* window.location.hash when the page loads
HashInputs(w) ==
  { <<>>, << "#", "t", "o", "p" >> }
  \cup { <<"#">> \o StepId([ w EXCEPT !.hasIds = TRUE ], index) : index \in 0..(w.n - 1) }

\* The page as its markup gives it: the first step shown, or no class set
InitWizard ==
  /\ IdleExcept("wizard")
  /\ \E n \in 1..MaxSteps, hasIds \in BOOLEAN, shown \in { {}, { 0 } } :
       LET w == [ NoWizard EXCEPT !.pc = "loading", !.n = n, !.hasIds = hasIds,
                                  !.active = shown, !.progressActive = shown ] IN
       wizard \in { [ w EXCEPT !.hash = h, !.last.before = View([ w EXCEPT !.hash = h ]) ] :
                    h \in HashInputs(w) }

\* The steps whose id equals the hash without its '#'
DeepLinked(w) ==
  { index \in 0..(w.n - 1) : w.hash # <<>> /\ StepId(w, index) = Tail(w.hash) }

\* initWizard(): currentStep = 0, handlers bound, deep link followed
LoadWizard ==
  /\ wizard.pc = "loading"
  /\ wizard' =
       IF DeepLinked(wizard) = {}
       THEN [ wizard EXCEPT !.pc = "ready",
                            !.last = EventRecord(wizard, "load", 0, FALSE) ]
       ELSE LET index == CHOOSE i \in DeepLinked(wizard) : TRUE IN
            [ goToStep(wizard, index) EXCEPT !.pc = "ready",
                !.last = EventRecord(wizard, "load", index, TRUE) ]
  /\ UNCHANGED notWizard

\* click on a [data-wizard-next] button
ClickNext ==
  /\ wizard.pc = "ready"
  /\ wizard' = [ goToStep(wizard, wizard.currentStep + 1) EXCEPT
                   !.last = EventRecord(wizard, "next", wizard.currentStep + 1, TRUE) ]
  /\ UNCHANGED notWizard

\* click on a [data-wizard-back] button
ClickBack ==
  /\ wizard.pc = "ready"
  /\ wizard' = [ goToStep(wizard, wizard.currentStep - 1) EXCEPT
                   !.last = EventRecord(wizard, "back", wizard.currentStep - 1, TRUE) ]
  /\ UNCHANGED notWizard

\* click on the progress step of an index
ClickProgressStep ==
  \E index \in 0..(wizard.n - 1) :
    /\ wizard.pc = "ready"
    /\ wizard' = IF index < wizard.currentStep
                 THEN [ goToStep(wizard, index) EXCEPT
                          !.last = EventRecord(wizard, "click", index, TRUE) ]
                 ELSE [ wizard EXCEPT !.last = EventRecord(wizard, "click", index, FALSE) ]
    /\ UNCHANGED notWizard

NextWizard ==
  \/ LoadWizard
  \/ ClickNext
  \/ ClickBack
  \/ ClickProgressStep

SpecWizard == InitWizard /\ [][NextWizard]_vars

\* C30: currentStep stays within 0..steps.length-1; a goToStep with an
\* index outside that range changes nothing; after a goToStep with an index
\* in range exactly the step content of currentStep is 'active', every
\* progress step before it is 'completed' and no other is; a click on a
\* progress step moves only to a strictly earlier step.
C30_WizardInvariant ==
  /\ wizard.currentStep \in 0..(wizard.n - 1)
  /\ (wizard.last.index < 0 \/ wizard.last.index >= wizard.n) =>
       View(wizard) = wizard.last.before
  /\ (wizard.last.called /\ wizard.last.index \in 0..(wizard.n - 1)) =>
       /\ wizard.currentStep = wizard.last.index
       /\ wizard.active = { wizard.currentStep }
       /\ wizard.progressActive = { wizard.currentStep }
       /\ wizard.completed = 0..(wizard.currentStep - 1)
  /\ wizard.last.kind = "click" =>
       IF wizard.last.index < wizard.last.before.currentStep
       THEN wizard.currentStep = wizard.last.index
       ELSE View(wizard) = wizard.last.before

\* From the last of four steps a click on the second progress step went
\* back to it
C30_Witness ==
  /\ wizard.n = 4
  /\ wizard.last.kind = "click"
  /\ wizard.last.before.currentStep = 3
  /\ wizard.currentStep = 1
  /\ wizard.completed = { 0 }
  /\ wizard.active = { 1 }

\* Next on the last step: goToStep(steps.length) was called and nothing
\* changed
C30_Boundary ==
  /\ wizard.last.kind = "next"
  /\ wizard.last.index = wizard.n
  /\ wizard.currentStep = wizard.n - 1

=============================================================================
